---- MODULE Spec2Model ----
(***************************************************************************)
(* A model of the Kururi compiler (osad-sakana/kururi-compiler): the       *)
(* lexer, the recursive-descent parser, the semantic analyzer, the Python  *)
(* emitter and the pipeline driver, each translated from its Rust source.  *)
(*                                                                         *)
(* Conventions.                                                            *)
(*  - A char is a one-character string; a Rust String built char by char   *)
(*    is the \o-concatenation of its chars.                                *)
(*  - Option<T> is a sequence of length 0 (None) or 1 (Some).              *)
(*  - Result<T, CompilerError> is a record with an `ok` flag, the payload  *)
(*    and `err`, a CompilerError [kind, msg] (NoError when ok).            *)
(*  - An f64 payload is held as its canonical decimal rendering (what      *)
(*    f64::to_string prints); ParseF64 turns a lexeme into it.  Within the *)
(*    bounds every lexeme is a short decimal that a double tells apart.    *)
(*  - Emitted text is a string; its line feeds are the "\n" chars in it.    *)
(***************************************************************************)
EXTENDS Integers, Sequences, FiniteSets, TLC

VARIABLES
    source,      \* the source buffer handed to the running Lexer::tokenize call
    lexer,       \* Lexer fields: [input, position, current_char]
    tokens,      \* tokenize's local `tokens` vector
    lexResult,   \* tokenize's state and return value: [status, tokens, err]
    ptokens,     \* the token slice handed to Parser::parse
    presult,     \* Parser::parse's return value (and the call's phase)
    analyzer,    \* a SemanticAnalyzer: [scopes, functions, current_function_return_type]
    compiler,    \* a Compiler: [lexer, semantic_analyzer]
    last,        \* the last finished job: [op, input, ok, code, node, err, context]
    ctx,         \* the artifacts the last driver job passed between its stages
    jobs         \* number of jobs run so far

vars == <<source, lexer, tokens, lexResult, ptokens, presult, analyzer, compiler, last, ctx, jobs>>

-----------------------------------------------------------------------------
(* Bounds *)

\* longest source buffer enumerated over LexAlphabet
MaxLen == 4

\* the most operators, binary and prefix together, in an expression handed to
\* the parser
MaxOperators == 3

\* the longest token list enumerated over an alphabet of the parser
MaxTokens == 5

\* the most opening parentheses and brackets in an enumerated token list
MaxOpen == 2

\* the most members of a class declaration handed to the parser
MaxMembers == 2

\* the most jobs run one after another on one Compiler and one SemanticAnalyzer
MaxJobs == 2

\* analyze_ast calls on one SemanticAnalyzer
MaxCalls == 2

\* the deepest nesting of the block statements handed to the emitter
MaxDepth == 2

-----------------------------------------------------------------------------
(* Option, errors *)

None == <<>>

Some(v) == <<v>>

NoError == [kind |-> "", msg |-> ""]

LexError(m) == [kind |-> "LexError", msg |-> m]

ParseError(m) == [kind |-> "ParseError", msg |-> m]

SemanticError(m) == [kind |-> "SemanticError", msg |-> m]

CodegenError(m) == [kind |-> "CodegenError", msg |-> m]

\* impl Display for CompilerError
Display(e) ==
    CASE e.kind = "LexError" -> "Lexical analysis error: " \o e.msg
      [] e.kind = "ParseError" -> "Parse error: " \o e.msg
      [] e.kind = "SemanticError" -> "Semantic analysis error: " \o e.msg
      [] e.kind = "CodegenError" -> "Code generation error: " \o e.msg
      [] OTHER -> "Internal error: " \o e.msg

-----------------------------------------------------------------------------
(* Characters and strings *)

Digits == {"0", "1", "2", "3", "4", "5", "6", "7", "8", "9"}

LowerLetters ==
    {"a", "b", "c", "d", "e", "f", "g", "h", "i", "j", "k", "l", "m",
     "n", "o", "p", "q", "r", "s", "t", "u", "v", "w", "x", "y", "z"}

UpperLetters ==
    {"A", "B", "C", "D", "E", "F", "G", "H", "I", "J", "K", "L", "M",
     "N", "O", "P", "Q", "R", "S", "T", "U", "V", "W", "X", "Y", "Z"}

is_ascii_digit(c) == c \in Digits

is_ascii_alphabetic(c) == c \in LowerLetters \cup UpperLetters

is_ascii_alphanumeric(c) == is_ascii_alphabetic(c) \/ is_ascii_digit(c)

\* String::push over a run of chars: the string the chars spell
RECURSIVE Join(_)
Join(cs) == IF cs = <<>> THEN "" ELSE Head(cs) \o Join(Tail(cs))

\* slice.get(i) with a 0-based index
Get(seq, i) == IF i >= 0 /\ i < Len(seq) THEN Some(seq[i + 1]) ELSE None

-----------------------------------------------------------------------------
(* Tokens (token.rs) *)

Tok(t) == [type |-> t, value |-> ""]

TokV(t, v) == [type |-> t, value |-> v]

Eof == Tok("Eof")

\* the mutant of keyword_or_identifier: `elseif` dropped from the table
keyword_or_identifier_NoElseif(s) ==
    CASE s = "const" -> Tok("Const")
      [] s = "let" -> Tok("Let")
      [] s = "function" -> Tok("Function")
      [] s = "class" -> Tok("Class")
      [] s = "public" -> Tok("Public")
      [] s = "if" -> Tok("If")
      [] s = "else" -> Tok("Else")
      [] s = "while" -> Tok("While")
      [] s = "for" -> Tok("For")
      [] s = "foreach" -> Tok("Foreach")
      [] s = "in" -> Tok("In")
      [] s = "return" -> Tok("Return")
      [] s = "new" -> Tok("New")
      [] s = "true" -> Tok("True")
      [] s = "false" -> Tok("False")
      [] s = "string" -> Tok("StringType")
      [] s = "number" -> Tok("NumberType")
      [] s = "void" -> Tok("VoidType")
      [] OTHER -> TokV("Identifier", s)

keyword_or_identifier(s) ==
    CASE s = "const" -> Tok("Const")
      [] s = "let" -> Tok("Let")
      [] s = "function" -> Tok("Function")
      [] s = "class" -> Tok("Class")
      [] s = "public" -> Tok("Public")
      [] s = "if" -> Tok("If")
      [] s = "elseif" -> Tok("Elseif")
      [] s = "else" -> Tok("Else")
      [] s = "while" -> Tok("While")
      [] s = "for" -> Tok("For")
      [] s = "foreach" -> Tok("Foreach")
      [] s = "in" -> Tok("In")
      [] s = "return" -> Tok("Return")
      [] s = "new" -> Tok("New")
      [] s = "true" -> Tok("True")
      [] s = "false" -> Tok("False")
      [] s = "string" -> Tok("StringType")
      [] s = "number" -> Tok("NumberType")
      [] s = "void" -> Tok("VoidType")
      [] OTHER -> TokV("Identifier", s)

-----------------------------------------------------------------------------
(* Lexer (lexer.rs) *)

\* Lexer::new
NewLexer == [input |-> <<>>, position |-> 0, current_char |-> None]

advance(lx) ==
    [lx EXCEPT !.position = lx.position + 1,
               !.current_char = Get(lx.input, lx.position + 1)]

peek(lx) == Get(lx.input, lx.position + 1)

\* a call with its arguments evaluated once, before the body (Rust passes
\* values)
Strict1(F(_), a) == CHOOSE r \in {F(x) : x \in {a}} : TRUE

Strict2(F(_, _), a, b) == CHOOSE r \in {F(x, y) : x \in {a}, y \in {b}} : TRUE

RECURSIVE skip_comment(_)
skip_comment(lx) ==
    IF lx.current_char = None \/ lx.current_char = Some("\n")
    THEN lx
    ELSE Strict1(skip_comment, advance(lx))

\* the mutant of read_string_loop: an unknown escape is copied, not rejected
RECURSIVE read_string_loop_Lenient(_, _)
read_string_loop_Lenient(lx, value) ==
    IF lx.current_char = None
    THEN [lexer |-> lx, ok |-> FALSE, token |-> Eof,
          err |-> LexError("Unterminated string literal")]
    ELSE LET ch == lx.current_char[1] IN
         IF ch = "\""
         THEN [lexer |-> advance(lx), ok |-> TRUE,
               token |-> TokV("StringLiteral", value), err |-> NoError]
         ELSE IF ch = "\\"
         THEN LET l2 == advance(lx) IN
              CASE l2.current_char = Some("n") ->
                       Strict2(read_string_loop_Lenient, advance(l2), value \o "\n")
                [] l2.current_char = Some("t") ->
                       Strict2(read_string_loop_Lenient, advance(l2), value \o "\t")
                [] l2.current_char = Some("r") ->
                       Strict2(read_string_loop_Lenient, advance(l2), value \o "\r")
                [] l2.current_char = None ->
                       [lexer |-> l2, ok |-> FALSE, token |-> Eof,
                        err |-> LexError("Unexpected end of input in string literal")]
                [] OTHER ->
                       Strict2(read_string_loop_Lenient, advance(l2), value \o l2.current_char[1])
         ELSE Strict2(read_string_loop_Lenient, advance(lx), value \o ch)

\* the body of read_string's loop, from the char after the opening quote;
\* `value` is the String built so far
RECURSIVE read_string_loop(_, _)
read_string_loop(lx, value) ==
    IF lx.current_char = None
    THEN [lexer |-> lx, ok |-> FALSE, token |-> Eof,
          err |-> LexError("Unterminated string literal")]
    ELSE LET ch == lx.current_char[1] IN
         IF ch = "\""
         THEN [lexer |-> advance(lx), ok |-> TRUE,
               token |-> TokV("StringLiteral", value), err |-> NoError]
         ELSE IF ch = "\\"
         THEN LET l2 == advance(lx) IN
              CASE l2.current_char = Some("n") ->
                       Strict2(read_string_loop, advance(l2), value \o "\n")
                [] l2.current_char = Some("t") ->
                       Strict2(read_string_loop, advance(l2), value \o "\t")
                [] l2.current_char = Some("r") ->
                       Strict2(read_string_loop, advance(l2), value \o "\r")
                [] l2.current_char = Some("\\") ->
                       Strict2(read_string_loop, advance(l2), value \o "\\")
                [] l2.current_char = Some("\"") ->
                       Strict2(read_string_loop, advance(l2), value \o "\"")
                [] l2.current_char = None ->
                       [lexer |-> l2, ok |-> FALSE, token |-> Eof,
                        err |-> LexError("Unexpected end of input in string literal")]
                [] OTHER ->
                       [lexer |-> l2, ok |-> FALSE, token |-> Eof,
                        err |-> LexError("Invalid escape sequence: \\" \o l2.current_char[1])]
         ELSE Strict2(read_string_loop, advance(lx), value \o ch)

read_string(lx) == Strict2(read_string_loop, advance(lx), "")

\* str::parse::<f64> on a lexeme of digits and dots that opens with a digit:
\* it fails exactly on a second '.'; the value is held by its canonical
\* rendering (leading zeros of the integer part and trailing zeros of the
\* fraction dropped, no '.' when the fraction is zero)
DotCount(cs) == Cardinality({i \in 1..Len(cs) : cs[i] = "."})

RECURSIVE StripLeadingZeros(_)
StripLeadingZeros(cs) ==
    IF Len(cs) > 1 /\ Head(cs) = "0" THEN StripLeadingZeros(Tail(cs)) ELSE cs

RECURSIVE StripTrailingZeros(_)
StripTrailingZeros(cs) ==
    IF cs # <<>> /\ cs[Len(cs)] = "0"
    THEN StripTrailingZeros(SubSeq(cs, 1, Len(cs) - 1))
    ELSE cs

ParseF64(cs) ==
    IF DotCount(cs) > 1
    THEN [ok |-> FALSE, value |-> ""]
    ELSE LET dot == IF DotCount(cs) = 0 THEN Len(cs) + 1
                    ELSE CHOOSE i \in 1..Len(cs) : cs[i] = "."
             ip == StripLeadingZeros(SubSeq(cs, 1, dot - 1))
             fp == StripTrailingZeros(SubSeq(cs, dot + 1, Len(cs)))
         IN [ok |-> TRUE,
             value |-> IF fp = <<>> THEN Join(ip) ELSE Join(ip) \o "." \o Join(fp)]

\* the mutant of number_run: the run ends before a second '.'
RECURSIVE number_run_OneDot(_, _)
number_run_OneDot(lx, value) ==
    IF lx.current_char # None
       /\ (is_ascii_digit(lx.current_char[1])
           \/ (lx.current_char[1] = "." /\ DotCount(value) = 0))
    THEN Strict2(number_run_OneDot, advance(lx), Append(value, lx.current_char[1]))
    ELSE [lexer |-> lx, value |-> value]

\* read_number's loop: the run of digits and dots from the cursor
RECURSIVE number_run(_, _)
number_run(lx, value) ==
    IF lx.current_char # None
       /\ (is_ascii_digit(lx.current_char[1]) \/ lx.current_char[1] = ".")
    THEN Strict2(number_run, advance(lx), Append(value, lx.current_char[1]))
    ELSE [lexer |-> lx, value |-> value]

read_number(lx) ==
    LET run == Strict2(number_run, lx, <<>>)
        num == Strict1(ParseF64, run.value)
    IN IF num.ok
       THEN [lexer |-> run.lexer, ok |-> TRUE,
             token |-> TokV("NumberLiteral", num.value), err |-> NoError]
       ELSE [lexer |-> run.lexer, ok |-> FALSE, token |-> Eof,
             err |-> LexError("Invalid number format: " \o Join(run.value))]

RECURSIVE identifier_run(_, _)
identifier_run(lx, value) ==
    IF lx.current_char # None
       /\ (is_ascii_alphanumeric(lx.current_char[1]) \/ lx.current_char[1] = "_")
    THEN Strict2(identifier_run, advance(lx), value \o lx.current_char[1])
    ELSE [lexer |-> lx, value |-> value]

read_identifier(lx) ==
    LET run == identifier_run(lx, "")
    IN [lexer |-> run.lexer, ok |-> TRUE,
        token |-> Strict1(keyword_or_identifier, run.value), err |-> NoError]

\* the arm of tokenize's `match ch` that a cursor state selects
Arm(lx) ==
    IF lx.current_char = None THEN "eof"
    ELSE LET ch == lx.current_char[1] IN
         CASE ch \in {" ", "\t", "\r"} -> "whitespace"
           [] ch = "\n" -> "newline"
           [] ch = "/" /\ peek(lx) = Some("/") -> "comment"
           [] ch = "\"" -> "string"
           [] is_ascii_digit(ch) -> "number"
           [] is_ascii_alphabetic(ch) \/ ch = "_" -> "identifier"
           [] ch \in {"+", "-", "*", "/", "(", ")", "{", "}", "[", "]", ",", ":", "."} -> "single"
           [] ch \in {"=", "!", "<", ">"} -> "compare"
           [] ch \in {"&", "|"} -> "logical"
           [] OTHER -> "unexpected"

SingleCharToken(ch) ==
    CASE ch = "+" -> Tok("Plus")
      [] ch = "-" -> Tok("Minus")
      [] ch = "*" -> Tok("Multiply")
      [] ch = "/" -> Tok("Divide")
      [] ch = "(" -> Tok("LeftParen")
      [] ch = ")" -> Tok("RightParen")
      [] ch = "{" -> Tok("LeftBrace")
      [] ch = "}" -> Tok("RightBrace")
      [] ch = "[" -> Tok("LeftBracket")
      [] ch = "]" -> Tok("RightBracket")
      [] ch = "," -> Tok("Comma")
      [] ch = ":" -> Tok("Colon")
      [] ch = "." -> Tok("Dot")

\* '=' '!' '<' '>' followed by '=' or not
CompareToken(ch, doubled) ==
    CASE ch = "=" -> IF doubled THEN Tok("Equal") ELSE Tok("Assign")
      [] ch = "!" -> IF doubled THEN Tok("NotEqual") ELSE Tok("Not")
      [] ch = "<" -> IF doubled THEN Tok("LessThanOrEqual") ELSE Tok("LessThan")
      [] ch = ">" -> IF doubled THEN Tok("GreaterThanOrEqual") ELSE Tok("GreaterThan")

Scanning(lx, toks) == [lexer |-> lx, tokens |-> toks, status |-> "scan", err |-> NoError]

Failed(lx, toks, e) == [lexer |-> lx, tokens |-> toks, status |-> "err", err |-> e]

\* the step of a sub-scan (read_string, read_number, read_identifier) in the loop
SubScan(r, toks) ==
    IF r.ok THEN Scanning(r.lexer, Append(toks, r.token))
    ELSE Failed(r.lexer, toks, r.err)

\* the mutant of WhitespaceArm: the cursor stays on the blank
WhitespaceArm_Stays(lx, toks) == Scanning(lx, toks)

\* the arm of ' ', '\t' and '\r': `self.advance();`
WhitespaceArm(lx, toks) == Scanning(advance(lx), toks)

\* the mutant of ScanStep's end-of-input arm: Eof is not appended
ScanEofNoPush(lx, toks) == [lexer |-> lx, tokens |-> toks, status |-> "ok", err |-> NoError]

\* `tokens.push(Token::Eof); Ok(tokens)` once the loop has ended
ScanEof(lx, toks) ==
    [lexer |-> lx, tokens |-> Append(toks, Eof), status |-> "ok", err |-> NoError]

\* one iteration of tokenize's `while let Some(ch) = self.current_char`, or,
\* with the input used up, the push of Eof and the return
ScanStep(lx, toks) ==
    LET arm == Arm(lx) IN
    IF arm = "eof" THEN ScanEof(lx, toks)
    ELSE LET ch == lx.current_char[1] IN
         CASE arm = "whitespace" -> WhitespaceArm(lx, toks)
           [] arm = "newline" -> Scanning(advance(lx), Append(toks, Tok("Newline")))
           [] arm = "comment" -> Scanning(skip_comment(lx), toks)
           [] arm = "string" -> Strict2(SubScan, read_string(lx), toks)
           [] arm = "number" -> Strict2(SubScan, read_number(lx), toks)
           [] arm = "identifier" -> Strict2(SubScan, read_identifier(lx), toks)
           [] arm = "single" -> Scanning(advance(lx), Append(toks, SingleCharToken(ch)))
           [] arm = "compare" ->
                  IF peek(lx) = Some("=")
                  THEN Scanning(advance(advance(lx)), Append(toks, CompareToken(ch, TRUE)))
                  ELSE Scanning(advance(lx), Append(toks, CompareToken(ch, FALSE)))
           [] arm = "logical" ->
                  IF peek(lx) = Some(ch)
                  THEN Scanning(advance(advance(lx)),
                                Append(toks, IF ch = "&" THEN Tok("And") ELSE Tok("Or")))
                  ELSE Failed(lx, toks, LexError("Unexpected character: " \o ch))
           [] OTHER -> Failed(lx, toks, LexError("Unexpected character: " \o ch))

\* tokenize's entry: the empty-source check, then the reset of the cursor
TokenizeEntry(lx, src) ==
    IF src = <<>>
    THEN Failed(lx, <<>>, LexError("Empty source code"))
    ELSE Scanning([input |-> src, position |-> 0, current_char |-> Get(src, 0)], <<>>)

\* what tokenize returns from a finished scan: Ok(tokens) or Err(e)
TokenizeReturn(st) ==
    IF st.status = "ok"
    THEN [ok |-> TRUE, tokens |-> st.tokens, err |-> NoError]
    ELSE [ok |-> FALSE, tokens |-> <<>>, err |-> st.err]

RECURSIVE ScanLoop(_)
ScanLoop(st) == IF st.status = "scan" THEN ScanLoop(ScanStep(st.lexer, st.tokens)) ELSE st

\* Lexer::tokenize as one call: [lexer, ok, tokens, err]
tokenize(lx, src) ==
    LET st == ScanLoop(TokenizeEntry(lx, src))
    IN [lexer |-> st.lexer] @@ TokenizeReturn(st)

\* Lexer::tokenize_strings: source_code.split_whitespace()
IsWhitespace(c) == c \in {" ", "\t", "\r", "\n"}

RECURSIVE split_whitespace(_, _, _)
split_whitespace(cs, word, acc) ==
    IF cs = <<>>
    THEN IF word = "" THEN acc ELSE Append(acc, word)
    ELSE IF IsWhitespace(Head(cs))
         THEN split_whitespace(Tail(cs), "", IF word = "" THEN acc ELSE Append(acc, word))
         ELSE split_whitespace(Tail(cs), word \o Head(cs), acc)

tokenize_strings(src) ==
    IF src = <<>>
    THEN [ok |-> FALSE, tokens |-> <<>>, err |-> LexError("Empty source code")]
    ELSE [ok |-> TRUE, tokens |-> split_whitespace(src, "", <<>>), err |-> NoError]

-----------------------------------------------------------------------------
(* AST (ast.rs) *)

TString == [t |-> "String"]

TNumber == [t |-> "Number"]

TVoid == [t |-> "Void"]

TArray(inner) == [t |-> "Array", of |-> inner]

TClass(name) == [t |-> "Class", name |-> name]

\* impl Display for KururiType
RECURSIVE TypeDisplay(_)
TypeDisplay(ty) ==
    CASE ty.t = "String" -> "string"
      [] ty.t = "Number" -> "number"
      [] ty.t = "Void" -> "void"
      [] ty.t = "Array" -> TypeDisplay(ty.of) \o "[]"
      [] OTHER -> ty.name

Program(statements) == [kind |-> "Program", statements |-> statements]

VariableDeclaration(is_const, name, var_type, value) ==
    [kind |-> "VariableDeclaration", is_const |-> is_const, name |-> name,
     var_type |-> var_type, value |-> value]

\* a parameter (String, KururiType)
Param(name, ty) == [name |-> name, type |-> ty]

FunctionDeclaration(name, params, return_type, body, is_public) ==
    [kind |-> "FunctionDeclaration", name |-> name, params |-> params,
     return_type |-> return_type, body |-> body, is_public |-> is_public]

\* a field (String, KururiType, AstNode)
Field(name, ty, default_value) == [name |-> name, type |-> ty, default_value |-> default_value]

ClassDeclaration(name, fields, methods) ==
    [kind |-> "ClassDeclaration", name |-> name, fields |-> fields, methods |-> methods]

\* an elseif branch (AstNode, Vec<AstNode>)
Branch(condition, body) == [condition |-> condition, body |-> body]

IfStatement(condition, then_body, elseif_branches, else_body) ==
    [kind |-> "IfStatement", condition |-> condition, then_body |-> then_body,
     elseif_branches |-> elseif_branches, else_body |-> else_body]

WhileStatement(condition, body) ==
    [kind |-> "WhileStatement", condition |-> condition, body |-> body]

ForStatement(counter_var, condition, body) ==
    [kind |-> "ForStatement", counter_var |-> counter_var, condition |-> condition,
     body |-> body]

ForeachStatement(var_name, iterable, body) ==
    [kind |-> "ForeachStatement", var_name |-> var_name, iterable |-> iterable,
     body |-> body]

BinaryExpression(left, operator, right) ==
    [kind |-> "BinaryExpression", left |-> left, operator |-> operator, right |-> right]

UnaryExpression(operator, operand) ==
    [kind |-> "UnaryExpression", operator |-> operator, operand |-> operand]

FunctionCall(name, args) == [kind |-> "FunctionCall", name |-> name, args |-> args]

MethodCall(object, method, args) ==
    [kind |-> "MethodCall", object |-> object, method |-> method, args |-> args]

ArrayAccess(array, index) == [kind |-> "ArrayAccess", array |-> array, index |-> index]

ArrayLiteral(elements) == [kind |-> "ArrayLiteral", elements |-> elements]

PropertyAccess(object, property) ==
    [kind |-> "PropertyAccess", object |-> object, property |-> property]

Assignment(target, value) == [kind |-> "Assignment", target |-> target, value |-> value]

StringLiteral(value) == [kind |-> "StringLiteral", value |-> value]

NumberLiteral(value) == [kind |-> "NumberLiteral", value |-> value]

BooleanLiteral(value) == [kind |-> "BooleanLiteral", value |-> value]

Identifier(name) == [kind |-> "Identifier", name |-> name]

ReturnStatement(value) == [kind |-> "ReturnStatement", value |-> value]

NewExpression(class_name, args) ==
    [kind |-> "NewExpression", class_name |-> class_name, args |-> args]

\* the node of a failed Result (never read)
NoNode == [kind |-> "None"]

\* no KururiType: the type of a call that computes none
NoType == [t |-> "None"]

-----------------------------------------------------------------------------
(* Parser (parser.rs).  The parser state is the token vector and the       *)
(* cursor `position`; current_token is tokens.get(position).  Every parse  *)
(* function returns [ok, node, pos, err]: the node and the cursor after    *)
(* it, or the ParseError.                                                   *)

current_token(toks, pos) == Get(toks, pos)

\* self.current_token == Some(Token::<type>) for a token without payload
At(toks, pos, type) == current_token(toks, pos) = Some(Tok(type))

AtType(toks, pos, type) ==
    current_token(toks, pos) # None /\ current_token(toks, pos)[1].type = type

POk(node, pos) == [ok |-> TRUE, node |-> node, pos |-> pos, err |-> NoError]

PErr(pos, m) == [ok |-> FALSE, node |-> NoNode, pos |-> pos, err |-> ParseError(m)]

\* the `?` operator: `r?` returns the Err r from the function, or carries on
\* with the Ok value
Try(r, Then(_)) == IF r.ok THEN Then(r) ELSE r

\* {:?} of a Token; an f64 prints with ".0" when it has no fraction.  (The
\* payload strings of the model hold no char that {:?} would escape.)
DebugToken(t) ==
    CASE t.type \in {"Identifier", "StringLiteral"} -> t.type \o "(\"" \o t.value \o "\")"
      [] t.type = "NumberLiteral" ->
             t.type \o "(" \o t.value
                    \o (IF \E i \in 1..Len(t.value) : SubSeq(t.value, i, i) = "."
                        THEN "" ELSE ".0") \o ")"
      [] OTHER -> t.type

DebugOption(o) == IF o = None THEN "None" ELSE "Some(" \o DebugToken(o[1]) \o ")"

consume(toks, pos, expected) ==
    IF At(toks, pos, expected)
    THEN POk(NoNode, pos + 1)
    ELSE PErr(pos, "Expected " \o expected \o ", found "
                   \o DebugOption(current_token(toks, pos)))

\* the node of parse_identifier's result is the name
parse_identifier(toks, pos) ==
    IF AtType(toks, pos, "Identifier")
    THEN POk(current_token(toks, pos)[1].value, pos + 1)
    ELSE PErr(pos, "Expected identifier")

\* the node of parse_type's result is the KururiType
parse_type(toks, pos) ==
    CASE At(toks, pos, "StringType") -> POk(TString, pos + 1)
      [] At(toks, pos, "NumberType") -> POk(TNumber, pos + 1)
      [] At(toks, pos, "VoidType") -> POk(TVoid, pos + 1)
      [] AtType(toks, pos, "Identifier") ->
             LET name == current_token(toks, pos)[1].value IN
             IF At(toks, pos + 1, "LeftBracket")
             THEN Try(consume(toks, pos + 2, "RightBracket"), LAMBDA c :
                  POk(TArray(TClass(name)), c.pos))
             ELSE POk(TClass(name), pos + 1)
      [] OTHER -> PErr(pos, "Expected type")

\* the mutant of LevelOperators: the additive and the multiplicative
\* operators change levels
LevelOperators_Swapped(level) ==
    CASE level = 1 -> {<<"Or", "Or">>}
      [] level = 2 -> {<<"And", "And">>}
      [] level = 3 -> {<<"Equal", "Equal">>, <<"NotEqual", "NotEqual">>}
      [] level = 4 -> {<<"LessThan", "LessThan">>,
                       <<"LessThanOrEqual", "LessThanOrEqual">>,
                       <<"GreaterThan", "GreaterThan">>,
                       <<"GreaterThanOrEqual", "GreaterThanOrEqual">>}
      [] level = 5 -> {<<"Multiply", "Multiply">>, <<"Divide", "Divide">>}
      [] level = 6 -> {<<"Plus", "Add">>, <<"Minus", "Subtract">>}

\* the binary operators of each precedence level, loosest first, as
\* <<token, BinaryOperator>>: parse_logical_or, parse_logical_and,
\* parse_equality, parse_comparison, parse_term, parse_factor
LevelOperators(level) ==
    CASE level = 1 -> {<<"Or", "Or">>}
      [] level = 2 -> {<<"And", "And">>}
      [] level = 3 -> {<<"Equal", "Equal">>, <<"NotEqual", "NotEqual">>}
      [] level = 4 -> {<<"LessThan", "LessThan">>,
                       <<"LessThanOrEqual", "LessThanOrEqual">>,
                       <<"GreaterThan", "GreaterThan">>,
                       <<"GreaterThanOrEqual", "GreaterThanOrEqual">>}
      [] level = 5 -> {<<"Plus", "Add">>, <<"Minus", "Subtract">>}
      [] level = 6 -> {<<"Multiply", "Multiply">>, <<"Divide", "Divide">>}

\* the operator of level `level` under the cursor, if any
OperatorAt(toks, pos, level) ==
    {p \in LevelOperators(level) : At(toks, pos, p[1])}

RECURSIVE parse_statement(_, _)
RECURSIVE parse_block(_, _, _)
RECURSIVE parse_expression(_, _)
RECURSIVE parse_level(_, _, _)
RECURSIVE parse_level_loop(_, _, _, _)
RECURSIVE parse_unary(_, _)
RECURSIVE parse_postfix_loop(_, _, _)
RECURSIVE parse_list(_, _, _, _)
RECURSIVE parse_params(_, _, _)
RECURSIVE parse_members(_, _, _, _)
RECURSIVE parse_elseifs(_, _, _)

\* the loop shared by call arguments and array literals:
\* `while current != close { push(parse_expression()?); if current == ',' { advance } else { break } }`
\* the node of the result is the vector of elements
parse_list(toks, pos, close, acc) ==
    IF At(toks, pos, close)
    THEN POk(acc, pos)
    ELSE Try(parse_expression(toks, pos), LAMBDA e :
         IF At(toks, e.pos, "Comma")
         THEN parse_list(toks, e.pos + 1, close, Append(acc, e.node))
         ELSE POk(Append(acc, e.node), e.pos))

parse_primary(toks, pos) ==
    CASE AtType(toks, pos, "StringLiteral") ->
             POk(StringLiteral(current_token(toks, pos)[1].value), pos + 1)
      [] AtType(toks, pos, "NumberLiteral") ->
             POk(NumberLiteral(current_token(toks, pos)[1].value), pos + 1)
      [] At(toks, pos, "True") -> POk(BooleanLiteral(TRUE), pos + 1)
      [] At(toks, pos, "False") -> POk(BooleanLiteral(FALSE), pos + 1)
      [] AtType(toks, pos, "Identifier") ->
             Try(parse_identifier(toks, pos), LAMBDA n : POk(Identifier(n.node), n.pos))
      [] At(toks, pos, "LeftParen") ->
             Try(parse_expression(toks, pos + 1), LAMBDA e :
             Try(consume(toks, e.pos, "RightParen"), LAMBDA c :
             POk(e.node, c.pos)))
      [] At(toks, pos, "LeftBracket") ->
             Try(parse_list(toks, pos + 1, "RightBracket", <<>>), LAMBDA l :
             Try(consume(toks, l.pos, "RightBracket"), LAMBDA c :
             POk(ArrayLiteral(l.node), c.pos)))
      [] At(toks, pos, "New") ->
             Try(parse_identifier(toks, pos + 1), LAMBDA n :
             POk(NewExpression(n.node, <<>>), n.pos))
      [] OTHER -> PErr(pos, "Unexpected token: " \o DebugOption(current_token(toks, pos)))

\* parse_postfix's `loop`, with `expr` the expression parsed so far
parse_postfix_loop(toks, expr, pos) ==
    CASE At(toks, pos, "LeftParen") ->
             Try(parse_list(toks, pos + 1, "RightParen", <<>>), LAMBDA l :
             Try(consume(toks, l.pos, "RightParen"), LAMBDA c :
             IF expr.kind = "Identifier"
             THEN parse_postfix_loop(toks, FunctionCall(expr.name, l.node), c.pos)
             ELSE PErr(c.pos, "Invalid function call")))
      [] At(toks, pos, "LeftBracket") ->
             Try(parse_expression(toks, pos + 1), LAMBDA i :
             Try(consume(toks, i.pos, "RightBracket"), LAMBDA c :
             parse_postfix_loop(toks, ArrayAccess(expr, i.node), c.pos)))
      [] At(toks, pos, "Dot") ->
             Try(parse_identifier(toks, pos + 1), LAMBDA n :
             parse_postfix_loop(toks, PropertyAccess(expr, n.node), n.pos))
      [] OTHER -> POk(expr, pos)

parse_postfix(toks, pos) ==
    Try(parse_primary(toks, pos), LAMBDA p : parse_postfix_loop(toks, p.node, p.pos))

parse_unary(toks, pos) ==
    CASE At(toks, pos, "Not") ->
             Try(parse_unary(toks, pos + 1), LAMBDA o :
             POk(UnaryExpression("Not", o.node), o.pos))
      [] At(toks, pos, "Minus") ->
             Try(parse_unary(toks, pos + 1), LAMBDA o :
             POk(UnaryExpression("Minus", o.node), o.pos))
      [] OTHER -> parse_postfix(toks, pos)

\* the operand parser of a level: the next tighter level, parse_unary below
\* parse_factor
parse_operand(toks, pos, level) ==
    IF level = 6 THEN parse_unary(toks, pos) ELSE parse_level(toks, pos, level + 1)

\* the `while` of a binary level, with `left` the operand folded so far
parse_level_loop(toks, left, pos, level) ==
    IF OperatorAt(toks, pos, level) = {}
    THEN POk(left, pos)
    ELSE Try(parse_operand(toks, pos + 1, level), LAMBDA r :
         parse_level_loop(toks,
                          BinaryExpression(
                              left, (CHOOSE p \in OperatorAt(toks, pos, level) : TRUE)[2],
                              r.node),
                          r.pos, level))

\* a binary level: `let mut left = operand()?; while ... ; Ok(left)`
parse_level(toks, pos, level) ==
    Try(parse_operand(toks, pos, level), LAMBDA l :
    parse_level_loop(toks, l.node, l.pos, level))

parse_factor(toks, pos) == parse_level(toks, pos, 6)

parse_term(toks, pos) == parse_level(toks, pos, 5)

parse_comparison(toks, pos) == parse_level(toks, pos, 4)

parse_equality(toks, pos) == parse_level(toks, pos, 3)

parse_logical_and(toks, pos) == parse_level(toks, pos, 2)

parse_logical_or(toks, pos) == parse_level(toks, pos, 1)

parse_expression(toks, pos) == parse_logical_or(toks, pos)

\* the mutant of parse_expression_statement: `=` after the expression makes
\* an Assignment of it
parse_expression_statement_Assigning(toks, pos) ==
    Try(parse_expression(toks, pos), LAMBDA e :
    IF At(toks, e.pos, "Assign")
    THEN Try(parse_expression(toks, e.pos + 1), LAMBDA v :
         POk(Assignment(e.node, v.node), v.pos))
    ELSE e)

parse_expression_statement(toks, pos) == parse_expression(toks, pos)

\* the statement loop of a block, up to (not including) its '}':
\* `while current != '}' && current.is_some() { skip Newline; push(parse_statement()?) }`
\* the node of the result is the vector of statements
parse_block(toks, pos, acc) ==
    IF At(toks, pos, "RightBrace") \/ current_token(toks, pos) = None
    THEN POk(acc, pos)
    ELSE IF At(toks, pos, "Newline")
         THEN parse_block(toks, pos + 1, acc)
         ELSE Try(parse_statement(toks, pos), LAMBDA s :
              parse_block(toks, s.pos, Append(acc, s.node)))

\* `{ stmts }`: consume('{'), the statement loop, consume('}')
parse_braced(toks, pos) ==
    Try(consume(toks, pos, "LeftBrace"), LAMBDA o :
    Try(parse_block(toks, o.pos, <<>>), LAMBDA b :
    Try(consume(toks, b.pos, "RightBrace"), LAMBDA c :
    POk(b.node, c.pos))))

\* the parameter loop of parse_function_declaration; the node is the vector
parse_params(toks, pos, acc) ==
    IF At(toks, pos, "RightParen")
    THEN POk(acc, pos)
    ELSE Try(parse_identifier(toks, pos), LAMBDA n :
         Try(consume(toks, n.pos, "Colon"), LAMBDA c :
         Try(parse_type(toks, c.pos), LAMBDA t :
         IF At(toks, t.pos, "Comma")
         THEN parse_params(toks, t.pos + 1, Append(acc, Param(n.node, t.node)))
         ELSE POk(Append(acc, Param(n.node, t.node)), t.pos))))

parse_function_declaration(toks, pos) ==
    Try(consume(toks, pos, "Function"), LAMBDA f :
    Try(parse_identifier(toks, f.pos), LAMBDA n :
    Try(consume(toks, n.pos, "LeftParen"), LAMBDA lp :
    Try(parse_params(toks, lp.pos, <<>>), LAMBDA ps :
    Try(consume(toks, ps.pos, "RightParen"), LAMBDA rp :
    Try(consume(toks, rp.pos, "Colon"), LAMBDA co :
    Try(parse_type(toks, co.pos), LAMBDA rt :
    Try(parse_braced(toks, rt.pos), LAMBDA b :
    POk(FunctionDeclaration(n.node, ps.node, rt.node, b.node, FALSE), b.pos)))))))))

\* the member loop of parse_class_declaration; the node is [fields, methods]
parse_members(toks, pos, fields, methods) ==
    IF At(toks, pos, "RightBrace") \/ current_token(toks, pos) = None
    THEN POk([fields |-> fields, methods |-> methods], pos)
    ELSE IF At(toks, pos, "Newline")
    THEN parse_members(toks, pos + 1, fields, methods)
    ELSE IF At(toks, pos, "Function") \/ At(toks, pos, "Public")
    THEN Try(parse_function_declaration(toks, pos), LAMBDA m :
         parse_members(toks, m.pos, fields, Append(methods, m.node)))
    ELSE Try(parse_identifier(toks, pos), LAMBDA n :
         Try(consume(toks, n.pos, "Colon"), LAMBDA c :
         Try(parse_type(toks, c.pos), LAMBDA t :
         Try(consume(toks, t.pos, "Assign"), LAMBDA a :
         Try(parse_expression(toks, a.pos), LAMBDA d :
         parse_members(toks, d.pos, Append(fields, Field(n.node, t.node, d.node)),
                       methods))))))

parse_class_declaration(toks, pos) ==
    Try(consume(toks, pos, "Class"), LAMBDA k :
    Try(parse_identifier(toks, k.pos), LAMBDA n :
    Try(consume(toks, n.pos, "LeftBrace"), LAMBDA o :
    Try(parse_members(toks, o.pos, <<>>, <<>>), LAMBDA m :
    Try(consume(toks, m.pos, "RightBrace"), LAMBDA c :
    POk(ClassDeclaration(n.node, m.node.fields, m.node.methods), c.pos))))))

\* `advance()` skips the let or const under the cursor
parse_variable_declaration(toks, pos) ==
    Try(parse_identifier(toks, pos + 1), LAMBDA n :
    Try(consume(toks, n.pos, "Colon"), LAMBDA c :
    Try(parse_type(toks, c.pos), LAMBDA t :
    Try(consume(toks, t.pos, "Assign"), LAMBDA a :
    Try(parse_expression(toks, a.pos), LAMBDA v :
    POk(VariableDeclaration(At(toks, pos, "Const"), n.node, t.node, v.node), v.pos))))))

\* the elseif loop of parse_if_statement; the node is the vector of branches
parse_elseifs(toks, pos, acc) ==
    IF ~At(toks, pos, "Elseif")
    THEN POk(acc, pos)
    ELSE Try(parse_expression(toks, pos + 1), LAMBDA c :
         Try(parse_braced(toks, c.pos), LAMBDA b :
         parse_elseifs(toks, b.pos, Append(acc, Branch(c.node, b.node)))))

parse_if_statement(toks, pos) ==
    Try(consume(toks, pos, "If"), LAMBDA k :
    Try(parse_expression(toks, k.pos), LAMBDA c :
    Try(parse_braced(toks, c.pos), LAMBDA t :
    Try(parse_elseifs(toks, t.pos, <<>>), LAMBDA ei :
    IF At(toks, ei.pos, "Else")
    THEN Try(parse_braced(toks, ei.pos + 1), LAMBDA e :
         POk(IfStatement(c.node, t.node, ei.node, Some(e.node)), e.pos))
    ELSE POk(IfStatement(c.node, t.node, ei.node, None), ei.pos)))))

parse_while_statement(toks, pos) ==
    Try(consume(toks, pos, "While"), LAMBDA k :
    Try(parse_expression(toks, k.pos), LAMBDA c :
    Try(parse_braced(toks, c.pos), LAMBDA b :
    POk(WhileStatement(c.node, b.node), b.pos))))

parse_for_statement(toks, pos) ==
    Try(consume(toks, pos, "For"), LAMBDA k :
    Try(parse_identifier(toks, k.pos), LAMBDA n :
    Try(parse_expression(toks, n.pos), LAMBDA c :
    Try(parse_braced(toks, c.pos), LAMBDA b :
    POk(ForStatement(n.node, c.node, b.node), b.pos)))))

parse_foreach_statement(toks, pos) ==
    Try(consume(toks, pos, "Foreach"), LAMBDA k :
    Try(parse_identifier(toks, k.pos), LAMBDA n :
    Try(consume(toks, n.pos, "In"), LAMBDA i :
    Try(parse_expression(toks, i.pos), LAMBDA e :
    Try(parse_braced(toks, e.pos), LAMBDA b :
    POk(ForeachStatement(n.node, e.node, b.node), b.pos))))))

parse_return_statement(toks, pos) ==
    Try(consume(toks, pos, "Return"), LAMBDA k :
    IF At(toks, k.pos, "Newline") \/ At(toks, k.pos, "RightBrace") \/ At(toks, k.pos, "Eof")
    THEN POk(ReturnStatement(None), k.pos)
    ELSE Try(parse_expression(toks, k.pos), LAMBDA e :
         POk(ReturnStatement(Some(e.node)), e.pos)))

parse_statement(toks, pos) ==
    CASE At(toks, pos, "Function") -> parse_function_declaration(toks, pos)
      [] At(toks, pos, "Class") -> parse_class_declaration(toks, pos)
      [] At(toks, pos, "Let") \/ At(toks, pos, "Const") -> parse_variable_declaration(toks, pos)
      [] At(toks, pos, "If") -> parse_if_statement(toks, pos)
      [] At(toks, pos, "While") -> parse_while_statement(toks, pos)
      [] At(toks, pos, "For") -> parse_for_statement(toks, pos)
      [] At(toks, pos, "Foreach") -> parse_foreach_statement(toks, pos)
      [] At(toks, pos, "Return") -> parse_return_statement(toks, pos)
      [] OTHER -> parse_expression_statement(toks, pos)

\* parse_program's loop; the node is the vector of statements
RECURSIVE parse_program_loop(_, _, _)
parse_program_loop(toks, pos, acc) ==
    IF current_token(toks, pos) = None \/ At(toks, pos, "Eof")
    THEN POk(acc, pos)
    ELSE IF At(toks, pos, "Newline")
         THEN parse_program_loop(toks, pos + 1, acc)
         ELSE Try(parse_statement(toks, pos), LAMBDA s :
              parse_program_loop(toks, s.pos, Append(acc, s.node)))

parse_program(toks) ==
    Try(parse_program_loop(toks, 0, <<>>), LAMBDA r : POk(Program(r.node), r.pos))

\* the mutant of parse: the empty token list is not rejected
parse_NoEmptyCheck(toks) == parse_program(toks)

\* Parser::parse
parse(toks) ==
    IF toks = <<>> THEN PErr(0, "No tokens to parse") ELSE parse_program(toks)

-----------------------------------------------------------------------------
(* NewParser (parser_new.rs) *)

\* The title literals of the fixed program.  The source writes the first in
\* Japanese ("multiplication table"); it is held here in Latin letters.
TitleLiteral == "kakezan kuku no hyou"

RuleLiteral == "================="

Add(l, r) == BinaryExpression(l, "Add", r)

LessThan(l, r) == BinaryExpression(l, "LessThan", r)

\* `for j < 9 { ... }` of the fixed program
InnerFor ==
    ForStatement("j", LessThan(Identifier("j"), NumberLiteral("9")),
        << VariableDeclaration(FALSE, "num1", TNumber,
               Add(Identifier("i"), NumberLiteral("1"))),
           VariableDeclaration(FALSE, "num2", TNumber,
               Add(Identifier("j"), NumberLiteral("1"))),
           VariableDeclaration(FALSE, "result", TNumber,
               BinaryExpression(Identifier("num1"), "Multiply", Identifier("num2"))),
           IfStatement(LessThan(Identifier("result"), NumberLiteral("10")),
               << Assignment(Identifier("row"),
                      Add(Add(Add(Identifier("row"), StringLiteral(" ")),
                              Identifier("result")),
                          StringLiteral(" "))) >>,
               << >>,
               Some(<< Assignment(Identifier("row"),
                           Add(Add(Identifier("row"), Identifier("result")),
                               StringLiteral(" "))) >>)) >>)

\* `for i < 9 { ... }` of the fixed program
OuterFor ==
    ForStatement("i", LessThan(Identifier("i"), NumberLiteral("9")),
        << VariableDeclaration(FALSE, "row", TString, StringLiteral("")),
           InnerFor,
           FunctionCall("output", << Identifier("row") >>) >>)

\* the program parse_example_kururi returns for every non-empty token list
ExampleProgram ==
    Program(<< FunctionDeclaration("main", << >>, TVoid,
                   << FunctionCall("output", << StringLiteral(TitleLiteral) >>),
                      FunctionCall("output", << StringLiteral(RuleLiteral) >>),
                      OuterFor >>,
                   FALSE) >>)

\* NewParser::parse_example_kururi
parse_example_kururi(toks) ==
    IF toks = <<>> THEN PErr(0, "No tokens to parse") ELSE POk(ExampleProgram, 0)

-----------------------------------------------------------------------------
(* Semantic analyzer (semantic.rs).  A scope (a HashMap from names to       *)
(* types) is a set of <<name, type>> pairs with at most one pair per name;  *)
(* the function table is a set of <<name, parameter types, return type>>.   *)

\* SemanticAnalyzer::new
NewAnalyzer ==
    [scopes |-> << {} >>,
     functions |-> { <<"output", << TString >>, TVoid>> },
     current_function_return_type |-> None]

\* HashMap::insert
Insert(scope, name, ty) == {p \in scope : p[1] # name} \cup { <<name, ty>> }

\* HashMap::contains_key
ContainsKey(scope, name) == \E p \in scope : p[1] = name

\* scopes.last_mut().insert(name, ty)
InsertInLastScope(an, name, ty) ==
    IF an.scopes = <<>> THEN an
    ELSE [an EXCEPT !.scopes[Len(an.scopes)] = Insert(@, name, ty)]

is_variable_defined(an, name) ==
    \E i \in 1..Len(an.scopes) : ContainsKey(an.scopes[i], name)

TOk(ty) == [ok |-> TRUE, type |-> ty, err |-> NoError]

TErr(m) == [ok |-> FALSE, type |-> TVoid, err |-> SemanticError(m)]

\* the mutant of get_variable_type: the outermost scope that holds the name
\* decides its type
get_variable_type_Outermost(an, name) ==
    IF is_variable_defined(an, name)
    THEN LET i == CHOOSE k \in 1..Len(an.scopes) :
                      /\ ContainsKey(an.scopes[k], name)
                      /\ \A j \in 1..(k - 1) : ~ContainsKey(an.scopes[j], name)
         IN TOk((CHOOSE p \in an.scopes[i] : p[1] = name)[2])
    ELSE TErr("Undefined variable: " \o name)

\* the innermost scope that holds the name decides its type
get_variable_type(an, name) ==
    IF is_variable_defined(an, name)
    THEN LET i == CHOOSE k \in 1..Len(an.scopes) :
                      /\ ContainsKey(an.scopes[k], name)
                      /\ \A j \in (k + 1)..Len(an.scopes) : ~ContainsKey(an.scopes[j], name)
         IN TOk((CHOOSE p \in an.scopes[i] : p[1] = name)[2])
    ELSE TErr("Undefined variable: " \o name)

\* compares the outermost constructors only
types_compatible_Shallow(expected, actual) == expected.t = actual.t

\* `expected == actual`, the derived PartialEq of KururiType
types_compatible(expected, actual) == expected = actual

\* self.functions.get(name), as an Option
FunctionEntry(an, name) ==
    IF \E f \in an.functions : f[1] = name
    THEN Some(CHOOSE f \in an.functions : f[1] = name)
    ELSE None

RECURSIVE get_expression_type(_, _)
get_expression_type(an, expr) ==
    CASE expr.kind = "StringLiteral" -> TOk(TString)
      [] expr.kind = "NumberLiteral" -> TOk(TNumber)
      [] expr.kind = "BooleanLiteral" -> TOk(TString)
      [] expr.kind = "Identifier" -> get_variable_type(an, expr.name)
      [] expr.kind = "FunctionCall" ->
             LET f == FunctionEntry(an, expr.name) IN
             IF f # None THEN TOk(f[1][3])
             ELSE TErr("Undefined function: " \o expr.name)
      [] expr.kind = "ArrayLiteral" ->
             IF expr.elements = <<>> THEN TOk(TArray(TString))
             ELSE LET first == get_expression_type(an, expr.elements[1]) IN
                  IF first.ok THEN TOk(TArray(first.type)) ELSE first
      [] expr.kind = "BinaryExpression" ->
             LET left_type == get_expression_type(an, expr.left) IN
             IF ~left_type.ok THEN left_type
             ELSE LET right_type == get_expression_type(an, expr.right) IN
                  IF ~right_type.ok THEN right_type
                  ELSE CASE expr.operator = "Add" ->
                                IF left_type.type = TNumber /\ right_type.type = TNumber
                                THEN TOk(TNumber) ELSE TOk(TString)
                         [] expr.operator \in {"Subtract", "Multiply", "Divide"} -> TOk(TNumber)
                         [] OTHER -> TOk(TString)
      [] OTHER -> TOk(TString)

\* the result of analyze_ast: the rebuilt node or the error, and the
\* analyzer as the call leaves it
AOk(an, node) == [ok |-> TRUE, node |-> node, err |-> NoError, an |-> an]

AErr(an, m) == [ok |-> FALSE, node |-> NoNode, err |-> SemanticError(m), an |-> an]

\* usize::to_string of the small counts the messages print
UsizeToString(n) ==
    IF n \in 0..9 THEN <<"0", "1", "2", "3", "4", "5", "6", "7", "8", "9">>[n + 1]
    ELSE "many"

RECURSIVE analyze_ast(_, _)
RECURSIVE analyze_all(_, _, _)
RECURSIVE analyze_args(_, _, _, _)

\* the mutant of analyze_all: each analyzed statement is put at the front
RECURSIVE analyze_all_Reversed(_, _, _)
analyze_all_Reversed(an, stmts, acc) ==
    IF Len(acc) = Len(stmts) THEN AOk(an, acc)
    ELSE LET r == analyze_ast(an, stmts[Len(acc) + 1]) IN
         IF r.ok THEN analyze_all_Reversed(r.an, stmts, <<r.node>> \o acc) ELSE r

\* `for stmt in stmts { analyzed.push(self.analyze_ast(stmt)?) }`; the node
\* of the result is the vector of analyzed statements
analyze_all(an, stmts, acc) ==
    IF Len(acc) = Len(stmts) THEN AOk(an, acc)
    ELSE LET r == analyze_ast(an, stmts[Len(acc) + 1]) IN
         IF r.ok THEN analyze_all(r.an, stmts, Append(acc, r.node)) ELSE r

\* the mutant of analyze_args: the argument's type is computed, not compared
RECURSIVE analyze_args_Unchecked(_, _, _, _)
analyze_args_Unchecked(an, args, param_types, acc) ==
    IF Len(acc) = Len(args) THEN AOk(an, acc)
    ELSE LET i == Len(acc) + 1
             r == analyze_ast(an, args[i])
         IN
         IF ~r.ok THEN r
         ELSE LET arg_type == get_expression_type(r.an, args[i]) IN
              IF ~arg_type.ok THEN [AErr(r.an, "") EXCEPT !.err = arg_type.err]
              ELSE analyze_args_Unchecked(r.an, args, param_types, Append(acc, r.node))

\* the argument loop of the FunctionCall arm
analyze_args(an, args, param_types, acc) ==
    IF Len(acc) = Len(args) THEN AOk(an, acc)
    ELSE LET i == Len(acc) + 1
             r == analyze_ast(an, args[i])
         IN
         IF ~r.ok THEN r
         ELSE LET arg_type == get_expression_type(r.an, args[i]) IN
              IF ~arg_type.ok THEN [AErr(r.an, "") EXCEPT !.err = arg_type.err]
              ELSE IF ~types_compatible(param_types[i], arg_type.type)
                   THEN AErr(r.an, "Argument " \o UsizeToString(i)
                                   \o " type mismatch: expected "
                                   \o TypeDisplay(param_types[i]) \o ", found "
                                   \o TypeDisplay(arg_type.type))
                   ELSE analyze_args(r.an, args, param_types, Append(acc, r.node))

\* the mutant of analyze_function_declaration: the function is entered in
\* the function table
analyze_function_declaration_Registering(an, ast) ==
    LET entry == <<ast.name, [i \in 1..Len(ast.params) |-> ast.params[i].type],
                   ast.return_type>>
        registered == [an EXCEPT !.functions = {f \in @ : f[1] # ast.name} \cup {entry}]
        r == analyze_all(registered, ast.body, <<>>)
    IN IF r.ok THEN AOk(r.an, [ast EXCEPT !.body = r.node]) ELSE r

\* the FunctionDeclaration arm: `_param_types` is computed and dropped, the
\* body is analysed in the scopes of the caller
analyze_function_declaration(an, ast) ==
    LET r == analyze_all(an, ast.body, <<>>) IN
    IF r.ok THEN AOk(r.an, [ast EXCEPT !.body = r.node]) ELSE r

\* the mutant of analyze_variable_declaration: the name is bound before its
\* initializer is analysed
analyze_variable_declaration_EarlyInsert(an, ast) ==
    LET v == analyze_ast(InsertInLastScope(an, ast.name, ast.var_type), ast.value) IN
    IF ~v.ok THEN v
    ELSE LET value_type == get_expression_type(v.an, ast.value) IN
         IF ~value_type.ok THEN [AErr(v.an, "") EXCEPT !.err = value_type.err]
         ELSE IF ~types_compatible(ast.var_type, value_type.type)
              THEN AErr(v.an, "Type mismatch: expected " \o TypeDisplay(ast.var_type)
                              \o ", found " \o TypeDisplay(value_type.type))
              ELSE AOk(v.an, [ast EXCEPT !.value = v.node])

\* the VariableDeclaration arm
analyze_variable_declaration(an, ast) ==
    LET v == analyze_ast(an, ast.value) IN
    IF ~v.ok THEN v
    ELSE LET value_type == get_expression_type(v.an, ast.value) IN
         IF ~value_type.ok THEN [AErr(v.an, "") EXCEPT !.err = value_type.err]
         ELSE IF ~types_compatible(ast.var_type, value_type.type)
              THEN AErr(v.an, "Type mismatch: expected " \o TypeDisplay(ast.var_type)
                              \o ", found " \o TypeDisplay(value_type.type))
              ELSE AOk(InsertInLastScope(v.an, ast.name, ast.var_type),
                       [ast EXCEPT !.value = v.node])

\* the mutant of is_assignable: the innermost scope alone is searched
is_assignable_Innermost(an, target) ==
    target.kind = "Identifier" /\ ContainsKey(an.scopes[Len(an.scopes)], target.name)

\* the two checks of the Assignment arm on its target
is_assignable(an, target) ==
    target.kind = "Identifier" /\ is_variable_defined(an, target.name)

analyze_ast(an, ast) ==
    CASE ast.kind = "Program" ->
             LET r == analyze_all(an, ast.statements, <<>>) IN
             IF r.ok THEN AOk(r.an, Program(r.node)) ELSE r
      [] ast.kind = "FunctionDeclaration" -> analyze_function_declaration(an, ast)
      [] ast.kind = "VariableDeclaration" -> analyze_variable_declaration(an, ast)
      [] ast.kind = "FunctionCall" ->
             LET f == FunctionEntry(an, ast.name) IN
             IF f = None THEN AErr(an, "Undefined function: " \o ast.name)
             ELSE IF Len(ast.args) # Len(f[1][2])
                  THEN AErr(an, "Function " \o ast.name \o " expects "
                                \o UsizeToString(Len(f[1][2])) \o " arguments, got "
                                \o UsizeToString(Len(ast.args)))
                  ELSE LET r == analyze_args(an, ast.args, f[1][2], <<>>) IN
                       IF r.ok THEN AOk(r.an, FunctionCall(ast.name, r.node)) ELSE r
      [] ast.kind = "Identifier" ->
             IF is_variable_defined(an, ast.name) THEN AOk(an, ast)
             ELSE AErr(an, "Undefined variable: " \o ast.name)
      [] ast.kind \in {"StringLiteral", "NumberLiteral", "BooleanLiteral"} -> AOk(an, ast)
      [] ast.kind = "ForStatement" ->
             LET pushed == InsertInLastScope([an EXCEPT !.scopes = Append(@, {})],
                                             ast.counter_var, TNumber)
                 c == analyze_ast(pushed, ast.condition)
             IN
             IF ~c.ok THEN c
             ELSE LET b == analyze_all(c.an, ast.body, <<>>) IN
                  IF ~b.ok THEN b
                  ELSE AOk([b.an EXCEPT !.scopes = SubSeq(@, 1, Len(@) - 1)],
                           ForStatement(ast.counter_var, c.node, b.node))
      [] ast.kind = "IfStatement" ->
             LET c == analyze_ast(an, ast.condition) IN
             IF ~c.ok THEN c
             ELSE LET t == analyze_all(c.an, ast.then_body, <<>>) IN
                  IF ~t.ok THEN t
                  ELSE IF ast.else_body = None
                       THEN AOk(t.an, IfStatement(c.node, t.node, ast.elseif_branches, None))
                       ELSE LET e == analyze_all(t.an, ast.else_body[1], <<>>) IN
                            IF ~e.ok THEN e
                            ELSE AOk(e.an, IfStatement(c.node, t.node, ast.elseif_branches,
                                                       Some(e.node)))
      [] ast.kind = "Assignment" ->
             IF ast.target.kind # "Identifier"
             THEN AErr(an, "Assignment target must be an identifier")
             ELSE IF ~is_assignable(an, ast.target)
                  THEN AErr(an, "Undefined variable: " \o ast.target.name)
                  ELSE LET v == analyze_ast(an, ast.value) IN
                       IF v.ok THEN AOk(v.an, Assignment(ast.target, v.node)) ELSE v
      [] ast.kind = "BinaryExpression" ->
             LET l == analyze_ast(an, ast.left) IN
             IF ~l.ok THEN l
             ELSE LET r == analyze_ast(l.an, ast.right) IN
                  IF r.ok THEN AOk(r.an, BinaryExpression(l.node, ast.operator, r.node)) ELSE r
      [] OTHER -> AOk(an, ast)

\* SemanticAnalyzer::analyze, on the legacy Vec<String> tree
analyze(ast) ==
    IF ast = <<>>
    THEN [ok |-> FALSE, ast |-> <<>>, err |-> SemanticError("No AST to analyze")]
    ELSE [ok |-> TRUE, ast |-> ast, err |-> NoError]

-----------------------------------------------------------------------------
(* Python emitter (codegen.rs).  The emitted code is a string; line feeds   *)
(* are the "\n" chars in it.                                                 *)

\* the chars of a string, as a sequence
Chars(s) == [i \in 1..Len(s) |-> SubSeq(s, i, i)]

\* char::is_whitespace on the chars the emitter meets
is_whitespace(ch) == ch \in {" ", "\t", "\n", "\r"}

\* s.trim().is_empty()
TrimIsEmpty(s) == \A i \in 1..Len(s) : is_whitespace(SubSeq(s, i, i))

\* [String]::join
RECURSIVE JoinWith(_, _)
JoinWith(parts, sep) ==
    IF parts = <<>> THEN ""
    ELSE IF Len(parts) = 1 THEN parts[1]
    ELSE parts[1] \o sep \o JoinWith(Tail(parts), sep)

\* str::lines: the pieces between line feeds, a trailing "\r" dropped from
\* each, and no last empty piece
Lines(s) ==
    LET feeds == {i \in 1..Len(s) : SubSeq(s, i, i) = "\n"}
        count == Cardinality(feeds) + (IF Len(s) = 0 \/ Len(s) \in feeds THEN 0 ELSE 1)
        End(k) == IF k > Cardinality(feeds) THEN Len(s) + 1
                  ELSE CHOOSE p \in feeds : Cardinality({q \in feeds : q < p}) = k - 1
        Start(k) == IF k = 1 THEN 1 ELSE End(k - 1) + 1
        StripCr(l) == IF Len(l) > 0 /\ SubSeq(l, Len(l), Len(l)) = "\r"
                      THEN SubSeq(l, 1, Len(l) - 1) ELSE l
    IN [k \in 1..count |-> StripCr(SubSeq(s, Start(k), End(k) - 1))]

\* value.replace('"', "\\\"")
EscapeQuotes(s) ==
    Join([i \in 1..Len(s) |-> IF SubSeq(s, i, i) = "\"" THEN "\\\"" ELSE SubSeq(s, i, i)])

GOk(code) == [ok |-> TRUE, code |-> code, err |-> NoError]

GErr(m) == [ok |-> FALSE, code |-> "", err |-> CodegenError(m)]

generate_unary_operator(operator) == IF operator = "Not" THEN "not " ELSE "-"

\* the `op_code` match of the BinaryExpression arm
BinaryOpCode(operator) ==
    CASE operator = "Add" -> "+"
      [] operator = "Subtract" -> "-"
      [] operator = "Multiply" -> "*"
      [] operator = "Divide" -> "/"
      [] operator = "Equal" -> "=="
      [] operator = "NotEqual" -> "!="
      [] operator = "LessThan" -> "<"
      [] operator = "LessThanOrEqual" -> "<="
      [] operator = "GreaterThan" -> ">"
      [] operator = "GreaterThanOrEqual" -> ">="
      [] operator = "And" -> "and"
      [] operator = "Or" -> "or"

\* the lines of a statement's code that are not blank, each indented
IndentedLines(stmt_code) ==
    LET ls == Lines(stmt_code) IN
    [i \in 1..Len(SelectSeq(ls, LAMBDA l : ~TrimIsEmpty(l))) |->
        "    " \o SelectSeq(ls, LAMBDA l : ~TrimIsEmpty(l))[i]]

\* No arm of generate_ast returns Err, so every `?` below passes the code on.
RECURSIVE generate_ast(_)
RECURSIVE generate_statements_body(_)
RECURSIVE body_lines(_, _)
RECURSIVE generate_elseifs(_, _)
RECURSIVE code_sections(_, _)

\* the loop of generate_statements_body over statements[i..]
body_lines(statements, i) ==
    IF i > Len(statements) THEN <<>>
    ELSE LET stmt_code == generate_ast(statements[i]).code IN
         (IF TrimIsEmpty(stmt_code) THEN <<>> ELSE IndentedLines(stmt_code))
             \o body_lines(statements, i + 1)

\* the mutant of generate_statements_body: a body without lines stays empty
generate_statements_body_NoPass(statements) ==
    GOk(JoinWith(body_lines(statements, 1), "\n"))

generate_statements_body(statements) ==
    IF statements = <<>> THEN GOk("    pass")
    ELSE LET ls == body_lines(statements, 1) IN
         IF ls = <<>> THEN GOk("    pass") ELSE GOk(JoinWith(ls, "\n"))

generate_function_declaration(name, params, body) ==
    LET params_str == JoinWith([i \in 1..Len(params) |-> params[i].name], ", ")
        body_code == generate_statements_body(body).code
    IN GOk("def " \o name \o "(" \o params_str \o "):\n" \o body_code)

generate_function_call(name, args) ==
    IF name = "output" /\ Len(args) = 1
    THEN GOk("print(" \o generate_ast(args[1]).code \o ")")
    ELSE GOk(name \o "("
             \o JoinWith([i \in 1..Len(args) |-> generate_ast(args[i]).code], ", ")
             \o ")")

\* the elseif loop of generate_if_statement over elseif_branches[i..]
generate_elseifs(elseif_branches, i) ==
    IF i > Len(elseif_branches) THEN ""
    ELSE "\nelif " \o generate_ast(elseif_branches[i].condition).code \o ":\n"
             \o generate_statements_body(elseif_branches[i].body).code
             \o generate_elseifs(elseif_branches, i + 1)

generate_if_statement(condition, then_body, elseif_branches, else_body) ==
    GOk("if " \o generate_ast(condition).code \o ":\n"
            \o generate_statements_body(then_body).code
            \o generate_elseifs(elseif_branches, 1)
            \o (IF else_body = None THEN ""
                ELSE "\nelse:\n" \o generate_statements_body(else_body[1]).code))

\* the loop of the Program arm over statements[i..]
code_sections(statements, i) ==
    IF i > Len(statements) THEN <<>>
    ELSE LET generated == generate_ast(statements[i]).code IN
         (IF TrimIsEmpty(generated) THEN <<>> ELSE <<generated>>)
             \o code_sections(statements, i + 1)

generate_ast(ast) ==
    CASE ast.kind = "Program" -> GOk(JoinWith(code_sections(ast.statements, 1), "\n\n"))
      [] ast.kind = "FunctionDeclaration" ->
             generate_function_declaration(ast.name, ast.params, ast.body)
      [] ast.kind = "VariableDeclaration" ->
             GOk(ast.name \o " = " \o generate_ast(ast.value).code)
      [] ast.kind = "FunctionCall" -> generate_function_call(ast.name, ast.args)
      [] ast.kind = "StringLiteral" -> GOk("\"" \o EscapeQuotes(ast.value) \o "\"")
      [] ast.kind = "NumberLiteral" -> GOk(ast.value)
      [] ast.kind = "BooleanLiteral" -> GOk(IF ast.value THEN "True" ELSE "False")
      [] ast.kind = "Identifier" -> GOk(ast.name)
      [] ast.kind = "BinaryExpression" ->
             LET left_code == generate_ast(ast.left).code
                 right_code == generate_ast(ast.right).code
                 op_code == BinaryOpCode(ast.operator)
             IN
             IF ast.operator = "Add"
             THEN GOk("str(" \o left_code \o ") " \o op_code \o " str(" \o right_code \o ")")
             ELSE GOk(left_code \o " " \o op_code \o " " \o right_code)
      [] ast.kind = "UnaryExpression" ->
             GOk(generate_unary_operator(ast.operator) \o generate_ast(ast.operand).code)
      [] ast.kind = "ArrayLiteral" ->
             GOk("[" \o JoinWith([i \in 1..Len(ast.elements) |->
                                     generate_ast(ast.elements[i]).code], ", ") \o "]")
      [] ast.kind = "ArrayAccess" ->
             GOk(generate_ast(ast.array).code \o "[" \o generate_ast(ast.index).code \o "]")
      [] ast.kind = "IfStatement" ->
             generate_if_statement(ast.condition, ast.then_body, ast.elseif_branches,
                                   ast.else_body)
      [] ast.kind = "WhileStatement" ->
             GOk("while " \o generate_ast(ast.condition).code \o ":\n"
                     \o generate_statements_body(ast.body).code)
      [] ast.kind = "ForStatement" ->
             LET body_code == generate_statements_body(ast.body).code IN
             IF /\ ast.condition.kind = "BinaryExpression"
                /\ ast.condition.operator = "LessThan"
                /\ ast.condition.right.kind = "NumberLiteral"
             THEN GOk("for " \o ast.counter_var \o " in range(int("
                          \o ast.condition.right.value \o ")):\n" \o body_code)
             ELSE GOk("for " \o ast.counter_var \o " in range(10):\n" \o body_code)
      [] ast.kind = "Assignment" ->
             GOk(generate_ast(ast.target).code \o " = " \o generate_ast(ast.value).code)
      [] ast.kind = "ReturnStatement" ->
             IF ast.value = None THEN GOk("return")
             ELSE GOk("return " \o generate_ast(ast.value[1]).code)
      [] OTHER -> GOk("")

\* generate_print_statement, of the legacy Vec<String> tree
generate_print_statement(content) == "print(\"" \o EscapeQuotes(content) \o "\")"

\* CodeGenerator::generate, of the legacy Vec<String> tree
generate(checked_ast) ==
    IF checked_ast = <<>> THEN GErr("No AST to generate code from")
    ELSE GOk("def main():\n    "
                 \o JoinWith([i \in 1..Len(checked_ast) |->
                                 generate_print_statement(checked_ast[i])], "\n    ")
                 \o "\n\nif __name__ == \"__main__\":\n    main()")

-----------------------------------------------------------------------------
(* Pipeline driver (compiler.rs).  A driver call returns its Result and     *)
(* leaves the Compiler changed (compile_ast takes &mut self); `locals` are  *)
(* the let-bindings of the call as far as it got: the artifacts of the      *)
(* stages run, the names of those stages, and the error `e` of the stage    *)
(* that failed, before map_err rewrites it.                                  *)

\* Compiler::new
NewCompiler == [lexer |-> NewLexer, semantic_analyzer |-> NewAnalyzer]

NoLocals ==
    [source_code |-> <<>>, tokens |-> <<>>, ast |-> NoNode, checked_ast |-> NoNode,
     generated_code |-> "", stages |-> <<>>, stage_err |-> NoError]

\* map_err(|e| CompilerError::<kind>(format!("<prefix>: {}", e)))
MapErr(kind, prefix, e) == [kind |-> kind, msg |-> prefix \o ": " \o Display(e)]

DOk(c, code, locals) ==
    [ok |-> TRUE, code |-> code, err |-> NoError, compiler |-> c, locals |-> locals]

DErr(c, kind, prefix, e, locals) ==
    [ok |-> FALSE, code |-> "", err |-> MapErr(kind, prefix, e), compiler |-> c,
     locals |-> [locals EXCEPT !.stage_err = e]]

\* Compiler::compile_ast
compile_ast(c, source_code) ==
    LET l0 == [NoLocals EXCEPT !.source_code = source_code, !.stages = <<"lex">>]
        lexed == tokenize(c.lexer, source_code)
        c1 == [c EXCEPT !.lexer = lexed.lexer]
    IN
    IF ~lexed.ok THEN DErr(c1, "LexError", "Lexical analysis failed", lexed.err, l0)
    ELSE
    LET l1 == [l0 EXCEPT !.tokens = lexed.tokens, !.stages = Append(@, "parse")]
        parsed == parse_example_kururi(lexed.tokens)
    IN
    IF ~parsed.ok THEN DErr(c1, "ParseError", "Parsing failed", parsed.err, l1)
    ELSE
    LET l2 == [l1 EXCEPT !.ast = parsed.node, !.stages = Append(@, "semantic")]
        checked == analyze_ast(c1.semantic_analyzer, parsed.node)
        c2 == [c1 EXCEPT !.semantic_analyzer = checked.an]
    IN
    IF ~checked.ok THEN DErr(c2, "SemanticError", "Semantic analysis failed", checked.err, l2)
    ELSE
    LET l3 == [l2 EXCEPT !.checked_ast = checked.node, !.stages = Append(@, "codegen")]
        generated == generate_ast(checked.node)
    IN
    IF ~generated.ok THEN DErr(c2, "CodegenError", "Code generation failed", generated.err, l3)
    ELSE DOk(c2, generated.code, [l3 EXCEPT !.generated_code = generated.code])

\* Compiler::compile; on success `context` is the CompileContext returned
compile(c, source_code) ==
    LET l0 == [NoLocals EXCEPT !.source_code = source_code, !.stages = <<"lex">>]
        lexed == tokenize_strings(source_code)
        none == [source_code |-> source_code, tokens |-> <<>>, ast |-> NoNode,
                 checked_ast |-> NoNode, generated_code |-> ""]
    IN
    IF ~lexed.ok
    THEN DErr(c, "LexError", "Lexical analysis failed", lexed.err, l0) @@ [context |-> none]
    ELSE
    LET ast == << "dummy" >>
        l2 == [l0 EXCEPT !.stages = <<"lex", "parse", "semantic">>]
        checked == analyze(ast)
    IN
    IF ~checked.ok
    THEN DErr(c, "SemanticError", "Semantic analysis failed", checked.err, l2) @@ [context |-> none]
    ELSE
    LET l3 == [l2 EXCEPT !.stages = Append(@, "codegen")]
        generated == generate(checked.ast)
    IN
    IF ~generated.ok
    THEN DErr(c, "CodegenError", "Code generation failed", generated.err, l3) @@ [context |-> none]
    ELSE DOk(c, generated.code, [l3 EXCEPT !.generated_code = generated.code])
         @@ [context |-> [source_code |-> source_code, tokens |-> <<>>,
                          ast |-> Program(<<>>), checked_ast |-> Program(<<>>),
                          generated_code |-> generated.code]]

-----------------------------------------------------------------------------
(* Source buffers of the lexer's specification *)

\* the chars the bounded source buffers are drawn from
LexAlphabet == {"\"", "\\", "n", "q", "1", ".", "/", "\n"}

\* every buffer over LexAlphabet of length 0..MaxLen
BoundedSources == UNION {[1..n -> LexAlphabet] : n \in 0..MaxLen}

\* the 19 reserved words of token.rs, spelled out
ReservedSources ==
    {<<"c", "o", "n", "s", "t">>,
     <<"l", "e", "t">>,
     <<"f", "u", "n", "c", "t", "i", "o", "n">>,
     <<"c", "l", "a", "s", "s">>,
     <<"p", "u", "b", "l", "i", "c">>,
     <<"i", "f">>,
     <<"e", "l", "s", "e", "i", "f">>,
     <<"e", "l", "s", "e">>,
     <<"w", "h", "i", "l", "e">>,
     <<"f", "o", "r">>,
     <<"f", "o", "r", "e", "a", "c", "h">>,
     <<"i", "n">>,
     <<"r", "e", "t", "u", "r", "n">>,
     <<"n", "e", "w">>,
     <<"t", "r", "u", "e">>,
     <<"f", "a", "l", "s", "e">>,
     <<"s", "t", "r", "i", "n", "g">>,
     <<"n", "u", "m", "b", "e", "r">>,
     <<"v", "o", "i", "d">>}

\* identifier runs that are no reserved word
IdentifierSources ==
    {<<"i", "f", "f">>,
     <<"I", "n">>,
     <<"f", "o", "r", "1">>,
     <<"_", "i", "f">>,
     <<"e", "l", "s", "e", "i", "f", "s">>,
     <<"v", "o", "i">>,
     <<"x", "_", "1">>,
     <<"C", "o", "n", "s", "t">>}

\* buffers that use the operators, the punctuation, blanks and comments
OperatorSources ==
    {<<"a", "+", "b">>,
     <<"x", " ", "=", " ", "1">>,
     <<"a", "<", "=", "b">>,
     <<"a", "&", "&", "b">>,
     <<"a", "|", "b">>,
     <<"a", "&">>,
     <<"x", " ", "/", "/", " ", "c", "\n", "y">>,
     <<"(", "a", ")", "[", "1", "]", "{", "b", "}", ",", "c", ":", "d", ".", "e">>,
     <<"a", "*", " ", "b", "-", " ", "c", "/", "d">>,
     <<"!", "a", " ", "!", "=", " ", "b">>,
     <<"a", ">", "b", " ", ">", "=", " ", "c", " ", "=", "=", " ", "d", "|", "|", "e">>,
     <<"#">>,
     <<"\t", "\r", "\n">>,
     <<"1", "2", ".", "5", "0">>,
     <<"0", "0", "7">>,
     <<"3", ".", "x">>,
     <<"\"", "a", "\\", "t", "b", "\\", "r", "\"">>,
     <<"1", ".", "2", ".", "3">>}

LexSources == BoundedSources \cup ReservedSources \cup IdentifierSources \cup OperatorSources

-----------------------------------------------------------------------------
(* The states before any call *)

NoLexResult == [status |-> "call", tokens |-> <<>>, err |-> NoError]

NoParseResult ==
    [status |-> "idle", parser |-> "", ok |-> FALSE, node |-> NoNode, pos |-> 0,
     err |-> NoError]

NoContext ==
    [source_code |-> <<>>, tokens |-> <<>>, ast |-> NoNode, checked_ast |-> NoNode,
     generated_code |-> ""]

NoJob ==
    [op |-> "none", input |-> 0, tree |-> NoNode, type |-> NoType, ok |-> FALSE, code |-> "",
     node |-> NoNode, err |-> NoError, context |-> NoContext]

\* no lexer or parser call in progress
LexIdle ==
    /\ lexer = NewLexer
    /\ tokens = <<>>
    /\ lexResult = NoLexResult

ParseIdle ==
    /\ ptokens = <<>>
    /\ presult = NoParseResult

\* a fresh Compiler, a fresh SemanticAnalyzer, no job run yet
DriverIdle ==
    /\ analyzer = NewAnalyzer
    /\ compiler = NewCompiler
    /\ last = NoJob
    /\ ctx = NoLocals
    /\ jobs = 0

-----------------------------------------------------------------------------
(* The lexer's specification: one tokenize call on each source buffer, an  *)
(* action per arm of the scanning loop, and then a parser called on the    *)
(* token list the call returned or on an empty one                          *)

InitLex ==
    /\ source \in LexSources
    /\ LexIdle
    /\ ParseIdle
    /\ DriverIdle

LexFrame == UNCHANGED <<source, ptokens, presult, analyzer, compiler, last, ctx, jobs>>

\* the scan state `st` becomes the state of the call
LexBecomes(st) ==
    /\ lexer' = st.lexer
    /\ tokens' = st.tokens
    /\ lexResult' = [status |-> st.status,
                     tokens |-> TokenizeReturn(st).tokens,
                     err |-> TokenizeReturn(st).err]
    /\ LexFrame

\* tokenize is entered: Err on the empty buffer, else the cursor is reset
TokenizeCall ==
    /\ lexResult.status = "call"
    /\ \E st \in {TokenizeEntry(lexer, source)} : LexBecomes(st)

\* one iteration of the scanning loop (or its end, with the input used up)
ScanIteration ==
    /\ lexResult.status = "scan"
    /\ \E st \in {ScanStep(lexer, tokens)} : LexBecomes(st)

ScanWhitespace ==
    /\ Arm(lexer) = "whitespace"
    /\ ScanIteration

ScanNewline ==
    /\ Arm(lexer) = "newline"
    /\ ScanIteration

ScanComment ==
    /\ Arm(lexer) = "comment"
    /\ ScanIteration

ScanString ==
    /\ Arm(lexer) = "string"
    /\ ScanIteration

ScanNumber ==
    /\ Arm(lexer) = "number"
    /\ ScanIteration

ScanIdentifier ==
    /\ Arm(lexer) = "identifier"
    /\ ScanIteration

ScanSingle ==
    /\ Arm(lexer) = "single"
    /\ ScanIteration

ScanCompare ==
    /\ Arm(lexer) = "compare"
    /\ ScanIteration

ScanLogical ==
    /\ Arm(lexer) = "logical"
    /\ ScanIteration

ScanUnexpected ==
    /\ Arm(lexer) = "unexpected"
    /\ ScanIteration

ScanEnd ==
    /\ Arm(lexer) = "eof"
    /\ ScanIteration

\* the token lists a caller can hand to a parser once tokenize has returned
HandedTokens == {<<>>} \cup (IF lexResult.status = "ok" THEN {lexResult.tokens} ELSE {})

ParseBecomes(name, toks, r) ==
    /\ ptokens' = toks
    /\ presult' = [status |-> "done", parser |-> name, ok |-> r.ok, node |-> r.node,
                   pos |-> r.pos, err |-> r.err]

\* Parser::parse on the token list handed over
ParseLexed ==
    /\ lexResult.status \in {"ok", "err"}
    /\ presult.status = "idle"
    /\ \E toks \in HandedTokens : ParseBecomes("Parser::parse", toks, parse(toks))
    /\ UNCHANGED <<source, lexer, tokens, lexResult, analyzer, compiler, last, ctx, jobs>>

\* NewParser::parse_example_kururi on the token list handed over
ParseExampleLexed ==
    /\ lexResult.status \in {"ok", "err"}
    /\ presult.status = "idle"
    /\ \E toks \in HandedTokens :
           ParseBecomes("NewParser::parse_example_kururi", toks, parse_example_kururi(toks))
    /\ UNCHANGED <<source, lexer, tokens, lexResult, analyzer, compiler, last, ctx, jobs>>

NextLex ==
    \/ TokenizeCall
    \/ ScanWhitespace
    \/ ScanNewline
    \/ ScanComment
    \/ ScanString
    \/ ScanNumber
    \/ ScanIdentifier
    \/ ScanSingle
    \/ ScanCompare
    \/ ScanLogical
    \/ ScanUnexpected
    \/ ScanEnd
    \/ ParseLexed
    \/ ParseExampleLexed

SpecLex == InitLex /\ [][NextLex]_vars

\* the steps of one tokenize call
NextTokenize ==
    \/ TokenizeCall
    \/ ScanWhitespace
    \/ ScanNewline
    \/ ScanComment
    \/ ScanString
    \/ ScanNumber
    \/ ScanIdentifier
    \/ ScanSingle
    \/ ScanCompare
    \/ ScanLogical
    \/ ScanUnexpected
    \/ ScanEnd

\* tokenize is a sequential loop: once called it is entered, and while it has
\* not returned its next iteration is run
SpecLexFair ==
    InitLex /\ [][NextTokenize]_vars /\ WF_vars(TokenizeCall) /\ WF_vars(ScanIteration)

-----------------------------------------------------------------------------
(* The parser's specification: a token list is written token by token (an  *)
(* expression of operands, binary operators and prefix operators), closed  *)
(* with Eof or not, and handed to a parser                                  *)

\* the operands of the expressions, by position
OperandNames == <<"a", "b", "c", "d", "e", "f">>

BinaryTokens ==
    {"Or", "And", "Equal", "NotEqual", "LessThan", "LessThanOrEqual", "GreaterThan",
     "GreaterThanOrEqual", "Plus", "Minus", "Multiply", "Divide"}

UnaryTokens == {"Not", "Minus"}

IsOperandAt(toks, i) == i \in 1..Len(toks) /\ toks[i].type = "Identifier"

\* the positions of toks that hold a binary operator: an operator token
\* right after an operand
BinaryPositions(toks) ==
    {i \in 1..Len(toks) : toks[i].type \in BinaryTokens /\ IsOperandAt(toks, i - 1)}

\* the positions that hold a prefix operator
UnaryPositions(toks) ==
    {i \in 1..Len(toks) : toks[i].type \in UnaryTokens /\ ~IsOperandAt(toks, i - 1)}

OperatorCount(toks) ==
    Cardinality(BinaryPositions(toks)) + Cardinality(UnaryPositions(toks))

OperandCount(toks) == Cardinality({i \in 1..Len(toks) : IsOperandAt(toks, i)})

\* the list ends where an operand is due
OperandDue(toks) == ~IsOperandAt(toks, Len(toks))

InitParse ==
    /\ source = <<>>
    /\ LexIdle
    /\ ParseIdle
    /\ DriverIdle

ParseFrame ==
    UNCHANGED <<source, lexer, tokens, lexResult, analyzer, compiler, last, ctx, jobs>>

PushOperand ==
    /\ presult.status = "idle"
    /\ OperandDue(ptokens)
    /\ ptokens' = Append(ptokens, TokV("Identifier", OperandNames[OperandCount(ptokens) + 1]))
    /\ UNCHANGED presult
    /\ ParseFrame

PushBinary ==
    /\ presult.status = "idle"
    /\ ~OperandDue(ptokens)
    /\ OperatorCount(ptokens) < MaxOperators
    /\ \E op \in BinaryTokens : ptokens' = Append(ptokens, Tok(op))
    /\ UNCHANGED presult
    /\ ParseFrame

PushUnary ==
    /\ presult.status = "idle"
    /\ OperandDue(ptokens)
    /\ OperatorCount(ptokens) < MaxOperators
    /\ \E op \in UnaryTokens : ptokens' = Append(ptokens, Tok(op))
    /\ UNCHANGED presult
    /\ ParseFrame

\* Parser::parse on the list, as written or closed with Eof
ParserParse ==
    /\ presult.status = "idle"
    /\ \E toks \in {ptokens, Append(ptokens, Eof)} :
           ParseBecomes("Parser::parse", toks, parse(toks))
    /\ ParseFrame

\* NewParser::parse_example_kururi on the list, as written or closed with Eof
ParseExampleKururi ==
    /\ presult.status = "idle"
    /\ \E toks \in {ptokens, Append(ptokens, Eof)} :
           ParseBecomes("NewParser::parse_example_kururi", toks, parse_example_kururi(toks))
    /\ ParseFrame

NextParse ==
    \/ PushOperand
    \/ PushBinary
    \/ PushUnary
    \/ ParserParse
    \/ ParseExampleKururi

SpecParse == InitParse /\ [][NextParse]_vars

-----------------------------------------------------------------------------
(* The specification of the parser's other entry points: every token list  *)
(* up to MaxTokens (and MaxOpen openings) over the tokens of types and over *)
(* the tokens of calls, array literals and member accesses, and class      *)
(* declarations of up to                                                    *)
(* MaxMembers members; parse_type is called on the first, Parser::parse on *)
(* the others                                                               *)

TypeAlphabet ==
    {Tok("StringType"), Tok("NumberType"), Tok("VoidType"), TokV("Identifier", "a"),
     Tok("LeftBracket"), Tok("RightBracket")}

ExpressionAlphabet ==
    {TokV("Identifier", "a"), Tok("LeftParen"), Tok("RightParen"), Tok("Comma"),
     Tok("LeftBracket"), Tok("RightBracket"), Tok("Dot")}

\* the tokens of expression statements and of `x = e`
StatementAlphabet ==
    {TokV("Identifier", "a"), Tok("Assign"), TokV("NumberLiteral", "1"), Tok("Newline")}

\* every token of the list is of the alphabet
Within(toks, alphabet) == \A i \in 1..Len(toks) : toks[i] \in alphabet

\* the opening parentheses and brackets of the list
OpenCount(toks) ==
    Cardinality({i \in 1..Len(toks) : toks[i] \in {Tok("LeftParen"), Tok("LeftBracket")}})

\* `class C {`
ClassOpen == <<Tok("Class"), TokV("Identifier", "C"), Tok("LeftBrace")>>

\* `m ( ) : void { }`, the rest of a method after `function`
MethodRest ==
    <<TokV("Identifier", "m"), Tok("LeftParen"), Tok("RightParen"), Tok("Colon"),
      Tok("VoidType"), Tok("LeftBrace"), Tok("RightBrace")>>

\* `x : number = 1`
FieldMember ==
    <<TokV("Identifier", "x"), Tok("Colon"), Tok("NumberType"), Tok("Assign"),
      TokV("NumberLiteral", "1")>>

\* the members written into a class body
ClassMembers ==
    <<<<Tok("Function")>> \o MethodRest,
      <<Tok("Public"), Tok("Function")>> \o MethodRest,
      <<Tok("Public")>> \o MethodRest,
      FieldMember,
      <<Tok("Newline")>>,
      SubSeq(FieldMember, 1, 3)>>

\* the token lists of up to n members
RECURSIVE ClassBodies(_)
ClassBodies(n) ==
    IF n = 0 THEN {<<>>}
    ELSE ClassBodies(n - 1)
             \cup {b \o ClassMembers[i] : b \in ClassBodies(n - 1), i \in 1..Len(ClassMembers)}

IsClassList(toks) == Len(toks) >= Len(ClassOpen) /\ SubSeq(toks, 1, Len(ClassOpen)) = ClassOpen

InitSyntax ==
    /\ source = <<>>
    /\ LexIdle
    /\ ParseIdle
    /\ DriverIdle

PushTypeToken ==
    /\ presult.status = "idle"
    /\ Len(ptokens) < MaxTokens
    /\ Within(ptokens, TypeAlphabet)
    /\ \E t \in TypeAlphabet :
           /\ OpenCount(Append(ptokens, t)) <= MaxOpen
           /\ ptokens' = Append(ptokens, t)
    /\ UNCHANGED presult
    /\ ParseFrame

PushExpressionToken ==
    /\ presult.status = "idle"
    /\ Len(ptokens) < MaxTokens
    /\ Within(ptokens, ExpressionAlphabet)
    /\ \E t \in ExpressionAlphabet :
           /\ OpenCount(Append(ptokens, t)) <= MaxOpen
           /\ ptokens' = Append(ptokens, t)
    /\ UNCHANGED presult
    /\ ParseFrame

PushStatementToken ==
    /\ presult.status = "idle"
    /\ Len(ptokens) < MaxTokens
    /\ Within(ptokens, StatementAlphabet)
    /\ \E t \in StatementAlphabet : ptokens' = Append(ptokens, t)
    /\ UNCHANGED presult
    /\ ParseFrame

OpenClass ==
    /\ presult.status = "idle"
    /\ ptokens = <<>>
    /\ ptokens' = ClassOpen
    /\ UNCHANGED presult
    /\ ParseFrame

PushMember ==
    /\ presult.status = "idle"
    /\ IsClassList(ptokens)
    /\ \E i \in 1..Len(ClassMembers) :
           /\ ptokens \o ClassMembers[i] \in {ClassOpen \o b : b \in ClassBodies(MaxMembers)}
           /\ ptokens' = ptokens \o ClassMembers[i]
    /\ UNCHANGED presult
    /\ ParseFrame

\* Parser::parse_type with the cursor on the first token of the list
ParseTypeCall ==
    /\ presult.status = "idle"
    /\ Within(ptokens, TypeAlphabet)
    /\ ParseBecomes("Parser::parse_type", ptokens, parse_type(ptokens, 0))
    /\ ParseFrame

\* Parser::parse on the list closed with Eof
ParseExpressionList ==
    /\ presult.status = "idle"
    /\ Within(ptokens, ExpressionAlphabet)
    /\ ParseBecomes("Parser::parse", Append(ptokens, Eof), parse(Append(ptokens, Eof)))
    /\ ParseFrame

\* Parser::parse on the statements closed with Eof
ParseStatementList ==
    /\ presult.status = "idle"
    /\ Within(ptokens, StatementAlphabet)
    /\ ParseBecomes("Parser::parse", Append(ptokens, Eof), parse(Append(ptokens, Eof)))
    /\ ParseFrame

\* Parser::parse on the class declaration closed with `}` and Eof
ParseClass ==
    /\ presult.status = "idle"
    /\ IsClassList(ptokens)
    /\ LET toks == ptokens \o <<Tok("RightBrace"), Eof>> IN
       ParseBecomes("Parser::parse", toks, parse(toks))
    /\ ParseFrame

NextSyntax ==
    \/ PushTypeToken
    \/ PushExpressionToken
    \/ OpenClass
    \/ PushMember
    \/ ParseTypeCall
    \/ ParseExpressionList
    \/ ParseClass
    \/ PushStatementToken
    \/ ParseStatementList

SpecSyntax == InitSyntax /\ [][NextSyntax]_vars

-----------------------------------------------------------------------------
(* The driver's specification: jobs run one after another on one Compiler  *)
(* (compile_ast, compile) and on one SemanticAnalyzer (analyze_ast)         *)

\* scenario S1 of the specification
S1Source ==
    Chars("function main(): void { const moji: string = \"Hello World by Kururi!\" output(moji) }")

\* the source buffers handed to the driver
DriverSources ==
    <<S1Source,
      <<>>,
      Chars("#"),
      Chars("x"),
      Chars("1.2.3"),
      Chars("\"abc"),
      Chars(" "),
      Chars("let x: number = 1")>>

LessThan9(name) == BinaryExpression(Identifier(name), "LessThan", NumberLiteral("9"))

\* the trees handed to analyze_ast
AnalyzerInputs ==
    <<VariableDeclaration(FALSE, "x", TNumber, NumberLiteral("1")),
      VariableDeclaration(FALSE, "y", TNumber, Identifier("x")),
      VariableDeclaration(FALSE, "x", TString, StringLiteral("s")),
      FunctionCall("output", <<Identifier("x")>>),
      ForStatement("i", LessThan9("i"), <<Identifier("z")>>),
      Identifier("i"),
      Assignment(Identifier("x"), NumberLiteral("2")),
      ExampleProgram>>

Init ==
    /\ source = <<>>
    /\ LexIdle
    /\ ParseIdle
    /\ DriverIdle

DriverFrame == UNCHANGED <<lexer, tokens, lexResult, ptokens, presult>>

\* a driver call returned `r` on DriverSources[i]
DriverBecomes(op, i, r, context) ==
    /\ source' = DriverSources[i]
    /\ compiler' = r.compiler
    /\ last' = [op |-> op, input |-> i, tree |-> NoNode, type |-> NoType, ok |-> r.ok, code |-> r.code,
                node |-> NoNode, err |-> r.err, context |-> context]
    /\ ctx' = r.locals
    /\ jobs' = jobs + 1
    /\ UNCHANGED analyzer
    /\ DriverFrame

\* Compiler::compile_ast on a source buffer
CompileAst ==
    /\ jobs < MaxJobs
    /\ \E i \in 1..Len(DriverSources) :
           DriverBecomes("compile_ast", i, compile_ast(compiler, DriverSources[i]), NoContext)

\* Compiler::compile on a source buffer
Compile ==
    /\ jobs < MaxJobs
    /\ \E i \in 1..Len(DriverSources) :
           LET r == compile(compiler, DriverSources[i]) IN
           DriverBecomes("compile", i, r, r.context)

\* SemanticAnalyzer::analyze_ast on a tree
AnalyzeAst ==
    /\ jobs < MaxJobs
    /\ \E i \in 1..Len(AnalyzerInputs) :
           LET r == analyze_ast(analyzer, AnalyzerInputs[i]) IN
           /\ analyzer' = r.an
           /\ last' = [op |-> "analyze_ast", input |-> i, tree |-> AnalyzerInputs[i], type |-> NoType,
                       ok |-> r.ok, code |-> "", node |-> r.node, err |-> r.err,
                       context |-> NoContext]
    /\ ctx' = NoLocals
    /\ jobs' = jobs + 1
    /\ UNCHANGED <<source, compiler>>
    /\ DriverFrame

Next ==
    \/ CompileAst
    \/ Compile
    \/ AnalyzeAst

Spec == Init /\ [][Next]_vars

-----------------------------------------------------------------------------
(* The analyzer's specification: one SemanticAnalyzer is handed up to      *)
(* MaxCalls trees, one analyze_ast call after another, as the Program arm   *)
(* hands it the statements of a program; `last` holds the tree of the last  *)
(* call and what the call returned                                          *)

\* the names declared at the top level, and the name declared in blocks only
TopLevelNames == {"x", "y"}

BlockLocalName == "z"

\* the name no tree binds, and the function no table holds
UnboundName == "q"

UnknownFunction == "g"

DeclaredTypes == {TNumber, TString, TArray(TNumber), TArray(TArray(TNumber))}

Initializers ==
    {NumberLiteral("1"),
     StringLiteral("hello"),
     Identifier("x"),
     Add(Identifier("x"), NumberLiteral("1")),
     ArrayLiteral(<<>>),
     ArrayLiteral(<<NumberLiteral("1")>>),
     ArrayLiteral(<<ArrayLiteral(<<NumberLiteral("1")>>)>>),
     ArrayLiteral(<<Identifier("y")>>)}

\* `const x: number = "hello"` of scenario S5
S5Declaration == VariableDeclaration(TRUE, "x", TNumber, StringLiteral("hello"))

\* `const x: number = 1`
ConstDeclaration == VariableDeclaration(TRUE, "x", TNumber, NumberLiteral("1"))

Declarations ==
    {VariableDeclaration(FALSE, n, t, e) :
        n \in TopLevelNames, t \in DeclaredTypes, e \in Initializers}
    \cup {S5Declaration, ConstDeclaration}

\* assignments to a name, to a name no tree binds and to targets that are no
\* identifier, of values of either type and of an unbound name
Assignments ==
    {Assignment(target, value) :
        target \in {Identifier("x"), Identifier(UnboundName), NumberLiteral("1"),
                    PropertyAccess(Identifier("x"), "p")},
        value \in {NumberLiteral("2"), StringLiteral("hello"), Identifier(UnboundName)}}

\* x is declared const and number, and assigned a string inside a for
ConstAssignmentProgram ==
    Program(<<ConstDeclaration,
              ForStatement("i", LessThan9("i"),
                           <<Assignment(Identifier("x"), StringLiteral("hello"))>>)>>)

\* f is declared, and then called by name
DeclareThenCallProgram ==
    Program(<<FunctionDeclaration("f", <<>>, TVoid, <<>>, FALSE),
              FunctionCall("f", <<>>)>>)

\* a declaration of a function named as the built-in
OutputDeclaration ==
    FunctionDeclaration("output", <<Param("p", TNumber)>>, TNumber, <<>>, FALSE)

CallArguments == {StringLiteral("hello"), NumberLiteral("1"), Identifier("x")}

ArgumentLists == UNION {[1..k -> CallArguments] : k \in 0..2}

Calls == {FunctionCall(n, args) : n \in {"output", "f"}, args \in ArgumentLists}

\* `let z: number = 1`, the declaration inside every block
LocalDeclaration == VariableDeclaration(FALSE, BlockLocalName, TNumber, NumberLiteral("1"))

TrueCondition == BooleanLiteral(TRUE)

\* one block statement of each kind, each declaring z in a body
Blocks ==
    {FunctionDeclaration("f", <<>>, TVoid, <<LocalDeclaration>>, FALSE),
     IfStatement(TrueCondition, <<LocalDeclaration>>, <<>>, None),
     IfStatement(TrueCondition, <<>>, <<>>, Some(<<LocalDeclaration>>)),
     IfStatement(TrueCondition, <<>>, <<Branch(TrueCondition, <<LocalDeclaration>>)>>, None),
     WhileStatement(TrueCondition, <<LocalDeclaration>>),
     ForStatement("i", LessThan9("i"), <<LocalDeclaration>>),
     ForStatement("i", LessThan9("i"), <<LocalDeclaration, Identifier("q")>>),
     ForeachStatement("v", ArrayLiteral(<<>>), <<LocalDeclaration>>)}

\* an identifier bound in no scope, and a call of an unknown function
UnboundNodes == {Identifier(UnboundName), FunctionCall(UnknownFunction, <<>>)}

\* the if, while and foreach statements with the node in one of their
\* sub-trees, the other sub-trees being free of names
StatementsAround(e) ==
    {IfStatement(e, <<>>, <<>>, None),
     IfStatement(TrueCondition, <<e>>, <<>>, None),
     IfStatement(TrueCondition, <<>>, <<Branch(e, <<>>)>>, None),
     IfStatement(TrueCondition, <<>>, <<Branch(TrueCondition, <<e>>)>>, None),
     IfStatement(TrueCondition, <<>>, <<>>, Some(<<e>>)),
     WhileStatement(e, <<>>),
     WhileStatement(TrueCondition, <<e>>),
     ForeachStatement("v", e, <<>>),
     ForeachStatement("v", ArrayLiteral(<<>>), <<e>>),
     ForStatement("i", LessThan9("i"), <<e>>),
     ForStatement("x", LessThan9("x"), <<e>>)}

Unbound == UNION {StatementsAround(e) : e \in UnboundNodes}

References == {Identifier(n) : n \in TopLevelNames \cup {BlockLocalName, "i"}}

\* the statements and expressions of the remaining kinds
OtherNodes ==
    {Assignment(Identifier("x"), NumberLiteral("2")),
     Assignment(NumberLiteral("1"), NumberLiteral("2")),
     ReturnStatement(Some(NumberLiteral("1"))),
     ReturnStatement(None),
     UnaryExpression("Minus", NumberLiteral("1")),
     ArrayAccess(Identifier("x"), NumberLiteral("0")),
     PropertyAccess(Identifier("x"), "p"),
     MethodCall(Identifier("x"), "m", <<>>),
     NewExpression("C", <<>>),
     ClassDeclaration("C", <<Field("p", TNumber, NumberLiteral("1"))>>, <<>>),
     BooleanLiteral(FALSE)}

Programs ==
    {ExampleProgram,
     ConstAssignmentProgram,
     DeclareThenCallProgram,
     Program(<<>>),
     Program(<<S5Declaration>>),
     Program(<<VariableDeclaration(FALSE, "x", TString, StringLiteral("hello")),
               IfStatement(LessThan9("x"),
                           <<FunctionCall("output", <<Identifier("x")>>)>>,
                           <<Branch(TrueCondition, <<Identifier("q")>>)>>,
                           Some(<<Assignment(Identifier("x"), StringLiteral(""))>>))>>)}

InitSemantic ==
    /\ source = <<>>
    /\ LexIdle
    /\ ParseIdle
    /\ DriverIdle

\* SemanticAnalyzer::analyze_ast on a tree
AnalyzeBecomes(tree) ==
    LET r == analyze_ast(analyzer, tree) IN
    /\ analyzer' = r.an
    /\ last' = [op |-> "analyze_ast", input |-> 0, tree |-> tree, type |-> NoType,
                ok |-> r.ok,
                code |-> "", node |-> r.node, err |-> r.err, context |-> NoContext]
    /\ jobs' = jobs + 1
    /\ UNCHANGED <<source, compiler, ctx>>
    /\ DriverFrame

AnalyzeDeclaration ==
    /\ jobs < MaxCalls
    /\ \E tree \in Declarations : AnalyzeBecomes(tree)

AnalyzeCall ==
    /\ jobs < MaxCalls
    /\ \E tree \in Calls : AnalyzeBecomes(tree)

AnalyzeBlock ==
    /\ jobs < MaxCalls
    /\ \E tree \in Blocks \cup {OutputDeclaration} : AnalyzeBecomes(tree)

AnalyzeAssignment ==
    /\ jobs < MaxCalls
    /\ \E tree \in Assignments : AnalyzeBecomes(tree)

AnalyzeReference ==
    /\ jobs < MaxCalls
    /\ \E tree \in References : AnalyzeBecomes(tree)

AnalyzeOther ==
    /\ jobs < MaxCalls
    /\ \E tree \in OtherNodes : AnalyzeBecomes(tree)

AnalyzeProgram ==
    /\ jobs < MaxCalls
    /\ \E tree \in Programs : AnalyzeBecomes(tree)

AnalyzeUnbound ==
    /\ jobs < MaxCalls
    /\ \E tree \in Unbound : AnalyzeBecomes(tree)

NextSemantic ==
    \/ AnalyzeDeclaration
    \/ AnalyzeAssignment
    \/ AnalyzeUnbound
    \/ AnalyzeCall
    \/ AnalyzeBlock
    \/ AnalyzeReference
    \/ AnalyzeOther
    \/ AnalyzeProgram

SpecSemantic == InitSemantic /\ [][NextSemantic]_vars

-----------------------------------------------------------------------------
(* The specification of get_expression_type: a SemanticAnalyzer analyses    *)
(* one program, which leaves it its scopes, and is then asked for the type  *)
(* of one expression, as the VariableDeclaration and FunctionCall arms ask  *)
(* for it; `last` holds the expression and the Result                       *)

\* a program that fails inside a for whose counter shadows the global x: the
\* analyzer keeps the scope of the for
ShadowingProgram ==
    Program(<<VariableDeclaration(FALSE, "x", TString, StringLiteral("hello")),
              ForStatement("x", LessThan9("x"), <<Identifier(UnboundName)>>)>>)

TypingPrograms ==
    {Program(<<>>),
     Program(<<VariableDeclaration(FALSE, "x", TString, StringLiteral("hello"))>>),
     Program(<<VariableDeclaration(FALSE, "x", TNumber, NumberLiteral("1")),
               VariableDeclaration(FALSE, "y", TArray(TNumber),
                                   ArrayLiteral(<<NumberLiteral("1")>>))>>),
     ShadowingProgram}

BinaryOperators ==
    {"Add", "Subtract", "Multiply", "Divide", "Equal", "NotEqual", "LessThan",
     "LessThanOrEqual", "GreaterThan", "GreaterThanOrEqual", "And", "Or"}

Operands == {NumberLiteral("1"), StringLiteral("hello"), Identifier("x")}

TypedExpressions ==
    {BinaryExpression(l, o, r) : l \in Operands, o \in BinaryOperators, r \in Operands}
    \cup Operands
    \cup {BooleanLiteral(TRUE),
          Identifier("y"),
          Identifier(UnboundName),
          FunctionCall("output", <<>>),
          FunctionCall(UnknownFunction, <<>>),
          ArrayLiteral(<<>>),
          ArrayLiteral(<<NumberLiteral("1"), StringLiteral("hello")>>),
          ArrayLiteral(<<StringLiteral("hello"), Identifier(UnboundName)>>),
          ArrayLiteral(<<Identifier("y")>>),
          ArrayLiteral(<<Identifier(UnboundName)>>),
          Add(Add(NumberLiteral("1"), NumberLiteral("1")), Identifier("x")),
          BinaryExpression(Identifier(UnboundName), "Subtract", NumberLiteral("1"))}

\* analyze_ast on the program that leaves the analyzer its scopes
PrepareScopes ==
    /\ jobs = 0
    /\ \E tree \in TypingPrograms : AnalyzeBecomes(tree)

\* SemanticAnalyzer::get_expression_type on an expression
TypeExpression ==
    /\ last.op # "get_expression_type"
    /\ \E e \in TypedExpressions :
           LET r == get_expression_type(analyzer, e) IN
           last' = [op |-> "get_expression_type", input |-> 0, tree |-> e,
                    type |-> (IF r.ok THEN r.type ELSE NoType), ok |-> r.ok, code |-> "",
                    node |-> NoNode, err |-> r.err, context |-> NoContext]
    /\ UNCHANGED <<source, analyzer, compiler, ctx, jobs>>
    /\ DriverFrame

NextTypes ==
    \/ PrepareScopes
    \/ TypeExpression

SpecTypes == InitSemantic /\ [][NextTypes]_vars

-----------------------------------------------------------------------------
(* The emitter's specification: CodeGenerator has no state, so a behaviour  *)
(* is one generate_ast call, on a block statement nested up to MaxDepth     *)
(* deep, on a program of such statements or on a node of another kind;      *)
(* `last` holds the tree of the call and what the call returned             *)

\* statements whose code is empty: kinds the `_` arm takes, an empty program
BlankStatements == {NewExpression("C", <<>>), Program(<<>>)}

\* statements whose code is not blank; the last one emits a blank line
\* between its two lines
FilledStatements ==
    {FunctionCall("output", <<StringLiteral("hello")>>),
     ReturnStatement(None),
     Program(<<VariableDeclaration(FALSE, "x", TNumber, NumberLiteral("1")),
               Assignment(Identifier("x"), NumberLiteral("2"))>>)}

\* the bodies without a block: up to two statements
LeafBodies ==
    UNION {[1..k -> BlankStatements \cup FilledStatements] : k \in 0..2}

\* the block statements over a body: a function, an if alone and with elseif
\* and else branches, a while, a for lowered to its limit and a for lowered
\* to range(10)
BlocksOver(body) ==
    {FunctionDeclaration("f", <<Param("p", TNumber)>>, TVoid, body, FALSE),
     IfStatement(TrueCondition, body, <<>>, None),
     IfStatement(TrueCondition, body, <<Branch(TrueCondition, body)>>, Some(body)),
     WhileStatement(TrueCondition, body),
     ForStatement("i", LessThan9("i"), body),
     ForStatement("i", TrueCondition, body)}

\* the block statements nested up to d deep
RECURSIVE BlockTrees(_)
BlockTrees(d) ==
    IF d = 0 THEN {}
    ELSE UNION {BlocksOver(body) : body \in LeafBodies \cup {<<b>> : b \in BlockTrees(d - 1)}}

\* programs of one and of two block statements
BlockPrograms ==
    {Program(<<b>>) : b \in BlockTrees(1)}
    \cup {Program(<<WhileStatement(TrueCondition, <<>>), b>>) : b \in BlockTrees(1)}

\* nodes of the kinds that emit no block
PlainNodes ==
    Initializers \cup Calls \cup OtherNodes \cup Declarations
    \cup {UnaryExpression("Not", TrueCondition),
          BinaryExpression(Identifier("x"), "And", Identifier("y")),
          ForeachStatement("v", ArrayLiteral(<<>>), <<LocalDeclaration>>),
          NoNode}

\* the conditions of the for statements handed to the emitter: the counter
\* below a literal, and conditions that differ from it in the left operand,
\* in the operator or in the bound
ForConditions ==
    {LessThan9("i"),
     LessThan9("j"),
     BinaryExpression(NumberLiteral("1"), "LessThan", NumberLiteral("9")),
     BinaryExpression(Identifier("i"), "LessThanOrEqual", NumberLiteral("9")),
     BinaryExpression(Identifier("i"), "GreaterThan", NumberLiteral("9")),
     BinaryExpression(Identifier("i"), "LessThan", Identifier("n")),
     BinaryExpression(Identifier("i"), "LessThan",
                      Add(NumberLiteral("9"), NumberLiteral("1"))),
     BinaryExpression(NumberLiteral("9"), "GreaterThan", Identifier("i")),
     Identifier("i"),
     TrueCondition}

\* the operators of the nested binary expressions handed to the emitter
GroupedOperators == {"Subtract", "Multiply", "Divide", "Add", "LessThan", "And"}

\* a binary expression over a, b, c grouped to the left, and one grouped to
\* the right
LeftGrouped(o1, o2) ==
    BinaryExpression(BinaryExpression(Identifier("a"), o1, Identifier("b")), o2,
                     Identifier("c"))

RightGrouped(o1, o2) ==
    BinaryExpression(Identifier("a"), o1,
                     BinaryExpression(Identifier("b"), o2, Identifier("c")))

GroupedExpressions ==
    {LeftGrouped(o1, o2) : o1, o2 \in GroupedOperators}
    \cup {RightGrouped(o1, o2) : o1, o2 \in GroupedOperators}

ForBodies ==
    {<<>>, <<FunctionCall("output", <<StringLiteral("hello")>>)>>}

InitCodegen ==
    /\ source = <<>>
    /\ LexIdle
    /\ ParseIdle
    /\ DriverIdle

\* CodeGenerator::generate_ast on a tree
GenerateBecomes(tree) ==
    LET r == generate_ast(tree) IN
    /\ last' = [op |-> "generate_ast", input |-> 0, tree |-> tree, type |-> NoType,
                ok |-> r.ok,
                code |-> r.code, node |-> NoNode, err |-> r.err, context |-> NoContext]
    /\ UNCHANGED <<source, analyzer, compiler, ctx, jobs>>
    /\ DriverFrame

GenerateBlock ==
    /\ last = NoJob
    /\ \E tree \in BlockTrees(MaxDepth) : GenerateBecomes(tree)

GenerateProgram ==
    /\ last = NoJob
    /\ \E tree \in BlockPrograms : GenerateBecomes(tree)

GeneratePlain ==
    /\ last = NoJob
    /\ \E tree \in PlainNodes : GenerateBecomes(tree)

GenerateFor ==
    /\ last = NoJob
    /\ \E c \in ForConditions, body \in ForBodies :
           GenerateBecomes(ForStatement("i", c, body))

GenerateGrouped ==
    /\ last = NoJob
    /\ \E tree \in GroupedExpressions : GenerateBecomes(tree)

NextCodegen ==
    \/ GenerateBlock
    \/ GenerateGrouped
    \/ GenerateFor
    \/ GenerateProgram
    \/ GeneratePlain

SpecCodegen == InitCodegen /\ [][NextCodegen]_vars

-----------------------------------------------------------------------------
(* C1 *)

\* str::contains
Contains(s, sub) ==
    \E i \in 1..(Len(s) - Len(sub) + 1) : SubSeq(s, i, i + Len(sub) - 1) = sub

\* C1: a successful compile_ast lowers the program written in its source: the
\* AST handed to semantic analysis is the one Parser::parse builds from the
\* source's tokens, and for the source of S1 the body of main has exactly two
\* statements and the code returned contains `def main():`,
\* `moji = "Hello World by Kururi!"` and `print(moji)`.
C1_LowersTheSourceWritten ==
    (last.op = "compile_ast" /\ last.ok) =>
        /\ parse(ctx.tokens).ok => ctx.ast = parse(ctx.tokens).node
        /\ source = S1Source =>
               /\ Len(ctx.ast.statements) = 1
               /\ ctx.ast.statements[1].kind = "FunctionDeclaration"
               /\ Len(ctx.ast.statements[1].body) = 2
               /\ Contains(last.code, "def main():")
               /\ Contains(last.code, "moji = \"Hello World by Kururi!\"")
               /\ Contains(last.code, "print(moji)")

-----------------------------------------------------------------------------
(* C2 *)

\* C2: a driver call that fails returns the diagnostic of the stage that
\* failed as the stage produced it, kind and message.
C2_DiagnosticVerbatim ==
    (last.op \in {"compile_ast", "compile"} /\ ~last.ok) => last.err = ctx.stage_err

-----------------------------------------------------------------------------
(* C3 *)

\* C3: the CompileContext of a successful compile holds the artifacts of the
\* stages: a token list that ends in Eof, and as generated_code the emission
\* of its checked_ast.
C3_ContextHoldsArtifacts ==
    (last.op = "compile" /\ last.ok) =>
        /\ last.context.tokens # <<>>
        /\ last.context.tokens[Len(last.context.tokens)] = Eof
        /\ last.context.generated_code = generate_ast(last.context.checked_ast).code

-----------------------------------------------------------------------------
(* C4 *)

\* what a job returns: success or diagnostic, and the output
Outcome(ok, code, node, err) == [ok |-> ok, code |-> code, node |-> node, err |-> err]

\* the outcome of a job run alone, on a Compiler or SemanticAnalyzer just made
OutcomeAlone(op, i) ==
    CASE op = "compile_ast" ->
             LET r == compile_ast(NewCompiler, DriverSources[i]) IN
             Outcome(r.ok, r.code, NoNode, r.err)
      [] op = "compile" ->
             LET r == compile(NewCompiler, DriverSources[i]) IN
             Outcome(r.ok, r.code, NoNode, r.err)
      [] op = "analyze_ast" ->
             LET r == analyze_ast(NewAnalyzer, AnalyzerInputs[i]) IN
             Outcome(r.ok, "", r.node, r.err)

\* C4: the outcome of a job is the outcome of that job run alone, whatever
\* jobs the same Compiler or SemanticAnalyzer ran before it.
C4_JobsIndependent ==
    last.op # "none" =>
        Outcome(last.ok, last.code, last.node, last.err) = OutcomeAlone(last.op, last.input)

-----------------------------------------------------------------------------
(* C11 *)

\* Parser::parse has returned on a list over the alphabet, closed with Eof
ParsedOver(alphabet) ==
    /\ presult.status = "done"
    /\ presult.parser = "Parser::parse"
    /\ ptokens # <<>>
    /\ Within(SubSeq(ptokens, 1, Len(ptokens) - 1), alphabet)

\* a comma of the list is directly followed by `)` or `]`
HasTrailingComma(toks) ==
    \E i \in 1..(Len(toks) - 1) :
        toks[i] = Tok("Comma") /\ toks[i + 1] \in {Tok("RightParen"), Tok("RightBracket")}

\* C11: a token list in which a comma is directly followed by the `)` or `]`
\* that ends an argument list or an array literal is rejected with a
\* ParseError.
C11_TrailingCommaRejected ==
    (ParsedOver(ExpressionAlphabet) /\ HasTrailingComma(ptokens)) =>
        (~presult.ok /\ presult.err.kind = "ParseError")

-----------------------------------------------------------------------------
(* C12 *)

\* the token is a base type: string, number, void or a class identifier
IsBaseTypeToken(t) ==
    t \in {Tok("StringType"), Tok("NumberType"), Tok("VoidType")} \/ t.type = "Identifier"

\* the list is a base type followed by pairs `[` `]` and nothing else
IsTypeList(toks) ==
    /\ Len(toks) >= 1
    /\ Len(toks) % 2 = 1
    /\ IsBaseTypeToken(toks[1])
    /\ \A i \in 2..Len(toks) :
           toks[i] = (IF i % 2 = 0 THEN Tok("LeftBracket") ELSE Tok("RightBracket"))

\* the KururiType a base type token names
BaseTypeOf(t) ==
    CASE t = Tok("StringType") -> TString
      [] t = Tok("NumberType") -> TNumber
      [] t = Tok("VoidType") -> TVoid
      [] OTHER -> TClass(t.value)

\* the type wrapped in k Array constructors
RECURSIVE ArrayOf(_, _)
ArrayOf(ty, k) == IF k = 0 THEN ty ELSE TArray(ArrayOf(ty, k - 1))

\* C12: on a base type followed by k pairs `[` `]`, parse_type returns the
\* base type wrapped in k Array constructors and leaves the cursor after
\* the last pair.
C12_ArrayTypes ==
    (/\ presult.status = "done"
     /\ presult.parser = "Parser::parse_type"
     /\ IsTypeList(ptokens)) =>
        /\ presult.ok
        /\ presult.node = ArrayOf(BaseTypeOf(ptokens[1]), (Len(ptokens) - 1) \div 2)
        /\ presult.pos = Len(ptokens)

-----------------------------------------------------------------------------
(* C13 *)

\* `( )`
EmptyCall == <<Tok("LeftParen"), Tok("RightParen")>>

\* C13: a call postfix after an identifier gives a FunctionCall of that
\* name, after a member access a MethodCall of the object and the property,
\* and after any other expression a ParseError.
C13_CallPostfix ==
    ParsedOver(ExpressionAlphabet) =>
        /\ ptokens = <<TokV("Identifier", "a")>> \o EmptyCall \o <<Eof>> =>
               presult.ok /\ presult.node = Program(<<FunctionCall("a", <<>>)>>)
        /\ ptokens = <<TokV("Identifier", "a"), Tok("Dot"), TokV("Identifier", "a")>>
                         \o EmptyCall \o <<Eof>> =>
               /\ presult.ok
               /\ presult.node = Program(<<MethodCall(Identifier("a"), "a", <<>>)>>)
        /\ ptokens \in {<<Tok("LeftBracket"), Tok("RightBracket")>> \o EmptyCall \o <<Eof>>,
                        <<TokV("Identifier", "a")>> \o EmptyCall \o EmptyCall \o <<Eof>>} =>
               ~presult.ok /\ presult.err.kind = "ParseError"

-----------------------------------------------------------------------------
(* C14 *)

\* the members of ClassMembers that are well formed: a method, a public
\* method and a field
WellFormedMembers == {1, 2, 4}

\* the methods and the fields a well-formed member declares
MethodsOf(i) ==
    IF i = 4 THEN <<>> ELSE <<FunctionDeclaration("m", <<>>, TVoid, <<>>, i = 2)>>

FieldsOf(i) == IF i = 4 THEN <<Field("x", TNumber, NumberLiteral("1"))>> ELSE <<>>

\* C14: in a class body a member that starts with `function` or `public`
\* parses as a method, public exactly when it starts with `public`, and any
\* other member as a field.
C14_ClassMembers ==
    (presult.status = "done" /\ presult.parser = "Parser::parse") =>
        \A i, j \in WellFormedMembers :
            /\ ptokens = ClassOpen \o ClassMembers[i] \o <<Tok("RightBrace"), Eof>> =>
                   /\ presult.ok
                   /\ presult.node = Program(<<ClassDeclaration("C", FieldsOf(i), MethodsOf(i))>>)
            /\ ptokens = ClassOpen \o ClassMembers[i] \o ClassMembers[j]
                             \o <<Tok("RightBrace"), Eof>> =>
                   /\ presult.ok
                   /\ presult.node =
                          Program(<<ClassDeclaration("C", FieldsOf(i) \o FieldsOf(j),
                                                     MethodsOf(i) \o MethodsOf(j))>>)

-----------------------------------------------------------------------------
(* C15 *)

\* the step is an analyze_ast call on a tree of the kind
AnalyzedKind(kind) ==
    /\ jobs' = jobs + 1
    /\ last'.op = "analyze_ast"
    /\ last'.tree.kind = kind

\* the innermost scope of an analyzer
InnermostScope(an) == an.scopes[Len(an.scopes)]

C15_Declaration ==
    AnalyzedKind("VariableDeclaration") =>
        LET d == last'.tree
            v == analyze_ast(analyzer, d.value)
            computed == get_expression_type(analyzer, d.value)
        IN
        (v.ok /\ computed.ok) =>
            /\ last'.ok <=> (computed.type = d.var_type)
            /\ computed.type # d.var_type =>
                   last'.err = SemanticError("Type mismatch: expected "
                                             \o TypeDisplay(d.var_type) \o ", found "
                                             \o TypeDisplay(computed.type))
            /\ last'.ok => <<d.name, d.var_type>> \in InnermostScope(analyzer')
            /\ d = S5Declaration =>
                   last'.err = SemanticError("Type mismatch: expected number, found string")

\* C15: a declaration `let/const x: T = e` whose initializer analyses without
\* error succeeds exactly when the computed type of e equals T, nested array
\* types included; otherwise it fails with `Type mismatch: expected T, found
\* Y`; when it succeeds the innermost scope binds x to T.
C15_TypeStrictness == [][C15_Declaration]_vars

\* a declaration of number[] initialised with a number[][] was refused
C15_Witness ==
    /\ last.op = "analyze_ast"
    /\ last.tree = VariableDeclaration(FALSE, "x", TArray(TNumber),
                        ArrayLiteral(<<ArrayLiteral(<<NumberLiteral("1")>>)>>))
    /\ ~last.ok
    /\ last.err = SemanticError("Type mismatch: expected number[], found number[][]")

-----------------------------------------------------------------------------
(* C16 *)

\* the analyzer is outside every block: only the global scope is open
OutsideBlocks(an) == Len(an.scopes) = 1

C16_Reference ==
    (/\ AnalyzedKind("Identifier")
     /\ last'.tree = Identifier(BlockLocalName)
     /\ OutsideBlocks(analyzer)) =>
        (~last'.ok /\ last'.err = SemanticError("Undefined variable: " \o BlockLocalName))

\* C16: a name declared only inside blocks (z: in a function body, an if or
\* else branch, a while, for or foreach body) is undefined once the block has
\* ended: a reference to it outside every block fails with `Undefined
\* variable`.
C16_ScopeLocality == [][C16_Reference]_vars

-----------------------------------------------------------------------------
(* C17 *)

\* the first position, from 1, whose argument has not the parameter's type; 0
\* when every argument has it
FirstMismatch(an, args, param_types) ==
    LET Bad == {i \in 1..Len(args) :
                   LET ty == get_expression_type(an, args[i]) IN
                   ~ty.ok \/ ty.type # param_types[i]}
    IN IF Bad = {} THEN 0 ELSE CHOOSE i \in Bad : \A j \in Bad : i <= j

C17_Call ==
    AnalyzedKind("FunctionCall") =>
        LET call == last'.tree
            f == FunctionEntry(analyzer, call.name)
        IN
        IF f = None
        THEN ~last'.ok /\ last'.err = SemanticError("Undefined function: " \o call.name)
        ELSE LET param_types == f[1][2]
                 i == IF Len(call.args) = Len(param_types)
                      THEN FirstMismatch(analyzer, call.args, param_types) ELSE 0
             IN
             /\ last'.ok <=> (Len(call.args) = Len(param_types) /\ i = 0)
             /\ (i > 0 /\ get_expression_type(analyzer, call.args[i]).ok) =>
                    last'.err =
                        SemanticError("Argument " \o <<"1", "2">>[i]
                                      \o " type mismatch: expected "
                                      \o TypeDisplay(param_types[i]) \o ", found "
                                      \o TypeDisplay(get_expression_type(analyzer,
                                                                         call.args[i]).type))

-----------------------------------------------------------------------------
(* C18 *)

C18_Redeclaration ==
    (/\ AnalyzedKind("VariableDeclaration")
     /\ ContainsKey(InnermostScope(analyzer), last'.tree.name)) =>
        /\ ~last'.ok
        /\ last'.err.kind = "SemanticError"
        /\ analyzer'.scopes = analyzer.scopes

\* C18: declaring a name that the innermost scope already binds returns a
\* SemanticError and leaves the earlier binding and its type in place.
C18_RedeclarationRefused == [][C18_Redeclaration]_vars

-----------------------------------------------------------------------------
(* C19 *)

\* C19: whenever analyze_ast returns Ok, the tree it returns equals the tree
\* it was handed, node for node.
C19_CheckedTreeIdentical ==
    (last.op = "analyze_ast" /\ last.ok) => last.node = last.tree

\* the fixed program, with its nested loops and its if/else, was returned as
\* handed in
C19_Witness ==
    /\ last.op = "analyze_ast"
    /\ last.tree = ExampleProgram
    /\ last.ok
    /\ last.node = ExampleProgram

-----------------------------------------------------------------------------
(* C20 *)

\* the spaces a line starts with
Indent(line) ==
    LET others == {i \in 1..Len(line) : SubSeq(line, i, i) # " "} IN
    IF others = {} THEN Len(line)
    ELSE (CHOOSE i \in others : \A j \in others : i <= j) - 1

\* the line opens a block: def, if, elif, else, while and for lines end in `:`
IsHeader(line) == Len(line) > 0 /\ SubSeq(line, Len(line), Len(line)) = ":"

\* every line that opens a block is followed by a line of the block, not
\* blank and one level deeper
BlocksFilled(code) ==
    LET ls == Lines(code) IN
    \A i \in 1..Len(ls) :
        IsHeader(ls[i]) =>
            /\ i < Len(ls)
            /\ ~TrimIsEmpty(ls[i + 1])
            /\ Indent(ls[i + 1]) = Indent(ls[i]) + 4

\* the bodies of a block statement
BodiesOf(tree) ==
    CASE tree.kind = "FunctionDeclaration" -> {tree.body}
      [] tree.kind \in {"WhileStatement", "ForStatement"} -> {tree.body}
      [] tree.kind = "IfStatement" ->
             {tree.then_body}
             \cup {tree.elseif_branches[i].body : i \in 1..Len(tree.elseif_branches)}
             \cup (IF tree.else_body = None THEN {} ELSE {tree.else_body[1]})
      [] OTHER -> {}

\* the body is empty or holds statements of BlankStatements only
IsBlankBody(body) == \A i \in 1..Len(body) : body[i] \in BlankStatements

\* C20: generate_ast returns Ok for every tree, every block of the code it
\* returns holds at least one line that is not blank, and a block whose body
\* is empty or emits blank code only is the single line `    pass`.
C20_EmitterTotal ==
    last.op = "generate_ast" =>
        /\ last.ok
        /\ last.err = NoError
        /\ BlocksFilled(last.code)
        /\ (BodiesOf(last.tree) # {} /\ \A body \in BodiesOf(last.tree) : IsBlankBody(body)) =>
               LET ls == Lines(last.code) IN
               \A i \in 1..Len(ls) :
                   IF i % 2 = 1 THEN IsHeader(ls[i]) ELSE ls[i] = "    pass"

\* a while whose body emits blank code only was lowered to `pass`
C20_Witness ==
    /\ last.op = "generate_ast"
    /\ last.tree = WhileStatement(TrueCondition, <<NewExpression("C", <<>>)>>)
    /\ last.ok
    /\ last.code = "while True:\n    pass"

-----------------------------------------------------------------------------
(* C21 *)

\* the condition is `i < N`: the loop's own counter below a number literal
IsCounterBelowLiteral(counter_var, c) ==
    /\ c.kind = "BinaryExpression"
    /\ c.operator = "LessThan"
    /\ c.left = Identifier(counter_var)
    /\ c.right.kind = "NumberLiteral"

\* C21: the header emitted for a for statement with counter i is
\* `for i in range(int(N)):` exactly when its condition is `i < N` with i the
\* counter itself and N a number literal, and `for i in range(10):` for every
\* other condition.
C21_ForLowering ==
    (last.op = "generate_ast" /\ last.tree.kind = "ForStatement") =>
        LET f == last.tree
            header == Lines(last.code)[1]
        IN
        header = (IF IsCounterBelowLiteral(f.counter_var, f.condition)
                  THEN "for " \o f.counter_var \o " in range(int("
                           \o f.condition.right.value \o ")):"
                  ELSE "for " \o f.counter_var \o " in range(10):")

-----------------------------------------------------------------------------
(* C22 *)

BlockKinds ==
    {"FunctionDeclaration", "IfStatement", "WhileStatement", "ForStatement",
     "ForeachStatement"}

C22_Block ==
    (/\ jobs' = jobs + 1
     /\ last'.op = "analyze_ast"
     /\ last'.tree.kind \in BlockKinds) =>
        Len(analyzer'.scopes) = Len(analyzer.scopes)

\* C22: a call of analyze_ast on a block statement leaves the scope stack as
\* deep as it found it, whether it returns Ok or a SemanticError raised inside
\* the block, and after every top-level call the stack holds the global scope
\* alone.
C22_ScopesBalanced == [](Len(analyzer.scopes) = 1) /\ [][C22_Block]_vars

-----------------------------------------------------------------------------
(* C23 *)

\* the diagnostic for the unbound node of a tree
DiagnosticOf(e) ==
    IF e.kind = "Identifier" THEN SemanticError("Undefined variable: " \o e.name)
    ELSE SemanticError("Undefined function: " \o e.name)

\* C23: an if, while or foreach statement with an unbound identifier in its
\* condition, in a body, in an elseif condition or body, in its else body or
\* in its iterable is refused with `Undefined variable`, and with `Undefined
\* function` when the sub-tree is a call of an unknown function.
C23_SubtreesAnalysed ==
    last.op = "analyze_ast" =>
        \A e \in UnboundNodes :
            (last.tree \in StatementsAround(e) /\ last.tree.kind # "ForStatement") =>
                (~last.ok /\ last.err = DiagnosticOf(e))

-----------------------------------------------------------------------------
(* C24 *)

\* the type of the innermost binding of the name, NoType when no scope binds
\* it
BindingType(an, name) ==
    LET holders == {k \in 1..Len(an.scopes) : \E p \in an.scopes[k] : p[1] = name} IN
    IF holders = {} THEN NoType
    ELSE LET k == CHOOSE h \in holders : \A j \in holders : j <= h IN
         (CHOOSE p \in an.scopes[k] : p[1] = name)[2]

\* the declared return type of the function, NoType when the table has none
ReturnType(an, name) ==
    IF \E f \in an.functions : f[1] = name
    THEN (CHOOSE f \in an.functions : f[1] = name)[3]
    ELSE NoType

\* the typing table
RECURSIVE TableType(_, _)
TableType(an, e) ==
    CASE e.kind = "StringLiteral" -> TString
      [] e.kind = "NumberLiteral" -> TNumber
      [] e.kind = "BooleanLiteral" -> TString
      [] e.kind = "Identifier" -> BindingType(an, e.name)
      [] e.kind = "FunctionCall" -> ReturnType(an, e.name)
      [] e.kind = "ArrayLiteral" ->
             IF e.elements = <<>> THEN TArray(TString)
             ELSE IF TableType(an, e.elements[1]) = NoType THEN NoType
             ELSE TArray(TableType(an, e.elements[1]))
      [] e.kind = "BinaryExpression" ->
             LET l == TableType(an, e.left)
                 r == TableType(an, e.right)
             IN
             IF l = NoType \/ r = NoType THEN NoType
             ELSE IF e.operator = "Add"
             THEN (IF l = TNumber /\ r = TNumber THEN TNumber ELSE TString)
             ELSE IF e.operator \in {"Subtract", "Multiply", "Divide"} THEN TNumber
             ELSE TString

\* C24: get_expression_type returns the type the typing table gives the
\* expression: literals, an identifier's innermost binding, a call's declared
\* return type, the array of the first element's type, number for `+` of two
\* numbers and string for any other `+`, number for `-` `*` `/`, string for
\* comparisons, equalities, `&&` and `||`.
C24_TypingTable ==
    (last.op = "get_expression_type" /\ TableType(analyzer, last.tree) # NoType) =>
        (last.ok /\ last.type = TableType(analyzer, last.tree))

\* x is bound to string in the global scope and to number in the scope above
\* it, and x + 1 was typed number
C24_Witness ==
    /\ last.op = "get_expression_type"
    /\ Len(analyzer.scopes) = 2
    /\ <<"x", TString>> \in analyzer.scopes[1]
    /\ <<"x", TNumber>> \in analyzer.scopes[2]
    /\ last.tree = Add(Identifier("x"), NumberLiteral("1"))
    /\ last.ok
    /\ last.type = TNumber

-----------------------------------------------------------------------------
(* C25 *)

\* some scope of the stack binds the name
BoundSomewhere(an, name) ==
    \E k \in 1..Len(an.scopes) : \E p \in an.scopes[k] : p[1] = name

C25_Assignment ==
    AnalyzedKind("Assignment") =>
        LET a == last'.tree
            targeted == a.target.kind = "Identifier" /\ BoundSomewhere(analyzer, a.target.name)
        IN
        /\ last'.ok <=> (targeted /\ analyze_ast(analyzer, a.value).ok)
        /\ ~targeted => last'.err.kind = "SemanticError"
        /\ analyzer'.scopes = analyzer.scopes

\* C25: an assignment succeeds exactly when its target is an identifier that
\* some scope of the stack binds and its value analyses without error, fails
\* with a SemanticError on any other target, and leaves the scope stack as it
\* was; a const name bound in an outer scope is assigned a value of another
\* type without a diagnostic.
C25_AssignmentRule ==
    /\ []((last.op = "analyze_ast" /\ last.tree = ConstAssignmentProgram) => last.ok)
    /\ [][C25_Assignment]_vars

\* x, bound to number, was assigned a string
C25_Witness ==
    /\ last.op = "analyze_ast"
    /\ last.tree = Assignment(Identifier("x"), StringLiteral("hello"))
    /\ last.ok
    /\ <<"x", TNumber>> \in analyzer.scopes[1]

-----------------------------------------------------------------------------
(* C26 *)

-----------------------------------------------------------------------------
(* C29 *)

C29_Rejected ==
    AnalyzedKind("VariableDeclaration") =>
        LET d == last'.tree IN
        /\ ~last'.ok => (analyzer'.scopes = analyzer.scopes
                          /\ analyzer'.functions = analyzer.functions)
        /\ (d.value = Identifier(d.name) /\ ~BoundSomewhere(analyzer, d.name)) =>
               (~last'.ok /\ last'.err = SemanticError("Undefined variable: " \o d.name))

\* C29: a declaration that is refused leaves every scope and the function
\* table as they were, and a declaration whose initializer is the name being
\* declared, bound nowhere else, is refused with `Undefined variable`.
C29_RejectedDeclarationFrame == [][C29_Rejected]_vars

\* `let x: number = x` was refused on a new analyzer, which stayed new
C29_Witness ==
    /\ last.op = "analyze_ast"
    /\ last.tree = VariableDeclaration(FALSE, "x", TNumber, Identifier("x"))
    /\ ~last.ok
    /\ last.err = SemanticError("Undefined variable: x")
    /\ analyzer = NewAnalyzer

-----------------------------------------------------------------------------
(* C27 *)

\* the operands and operators of a binary expression from left to right
RECURSIVE Flat(_)
Flat(e) ==
    IF e.kind = "BinaryExpression" THEN Flat(e.left) \o <<e.operator>> \o Flat(e.right)
    ELSE <<e>>

\* C27: two binary expressions over the same operands and operators in the
\* same order, grouped differently, are emitted as different texts.
C27_GroupingPreserved ==
    (last.op = "generate_ast" /\ last.tree \in GroupedExpressions) =>
        \A other \in GroupedExpressions :
            (other # last.tree /\ Flat(other) = Flat(last.tree)) =>
                generate_ast(other).code # last.code

-----------------------------------------------------------------------------
(* C28 *)

\* the concatenation of a sequence of sequences
RECURSIVE ConcatAll(_)
ConcatAll(seqs) == IF seqs = <<>> THEN <<>> ELSE Head(seqs) \o ConcatAll(Tail(seqs))

\* the nodes directly under a node, in the order of its fields
Children(n) ==
    LET Opt(o) == IF o = None THEN <<>> ELSE o
        OptBody(o) == IF o = None THEN <<>> ELSE o[1]
    IN CASE n.kind = "Program" -> n.statements
         [] n.kind = "VariableDeclaration" -> <<n.value>>
         [] n.kind = "FunctionDeclaration" -> n.body
         [] n.kind = "ClassDeclaration" ->
                [i \in 1..Len(n.fields) |-> n.fields[i].default_value] \o n.methods
         [] n.kind = "IfStatement" ->
                <<n.condition>> \o n.then_body
                    \o ConcatAll([i \in 1..Len(n.elseif_branches) |->
                                   <<n.elseif_branches[i].condition>>
                                       \o n.elseif_branches[i].body])
                    \o OptBody(n.else_body)
         [] n.kind \in {"WhileStatement", "ForStatement"} -> <<n.condition>> \o n.body
         [] n.kind = "ForeachStatement" -> <<n.iterable>> \o n.body
         [] n.kind = "BinaryExpression" -> <<n.left, n.right>>
         [] n.kind = "UnaryExpression" -> <<n.operand>>
         [] n.kind \in {"FunctionCall", "NewExpression"} -> n.args
         [] n.kind = "MethodCall" -> <<n.object>> \o n.args
         [] n.kind = "ArrayAccess" -> <<n.array, n.index>>
         [] n.kind = "ArrayLiteral" -> n.elements
         [] n.kind = "PropertyAccess" -> <<n.object>>
         [] n.kind = "Assignment" -> <<n.target, n.value>>
         [] n.kind = "ReturnStatement" -> Opt(n.value)
         [] OTHER -> <<>>

\* the kinds of the nodes of a tree
RECURSIVE KindsIn(_)
KindsIn(n) ==
    {n.kind} \cup UNION {KindsIn(Children(n)[i]) : i \in 1..Len(Children(n))}

\* an identifier directly followed by `=`
HasAssignment(toks) ==
    \E i \in 1..(Len(toks) - 1) :
        toks[i].type = "Identifier" /\ toks[i + 1] = Tok("Assign")

\* Parser::parse has returned
Parsed == presult.status = "done" /\ presult.parser = "Parser::parse"

\* C28: the tree Parser::parse returns holds no Assignment and no MethodCall
\* node, and a token list with an identifier followed by `=` outside a
\* declaration is refused with a ParseError.
C28_NoAssignmentNode ==
    Parsed =>
        /\ presult.ok => KindsIn(presult.node) \cap {"Assignment", "MethodCall"} = {}
        /\ (ParsedOver(StatementAlphabet) /\ HasAssignment(ptokens)) =>
               ~presult.ok /\ presult.err.kind = "ParseError"

\* `a = 1` has been handed to Parser::parse and refused
C28_Witness ==
    /\ Parsed
    /\ ptokens = <<TokV("Identifier", "a"), Tok("Assign"), TokV("NumberLiteral", "1"), Eof>>
    /\ ~presult.ok

-----------------------------------------------------------------------------
(* C30 *)

\* tokenize is in its loop
InLoop == lexResult.status = "scan"

\* tokenize has returned Ok(tokens) or Err(LexError)
Returned == lexResult.status \in {"ok", "err"}

\* an iteration moves the cursor forward or returns, and never moves it back
C30_Iteration ==
    InLoop =>
        /\ lexer'.position >= lexer.position
        /\ lexer'.position > lexer.position \/ lexResult'.status \in {"ok", "err"}

\* C30: lexing terminates.  Every iteration of tokenize's loop, sub-scans
\* included, moves the cursor strictly forward or returns, the position never
\* exceeds the length of the input, and every call returns a token list or a
\* LexError.
C30_LexingTerminates ==
    /\ [](lexer.position <= Len(lexer.input))
    /\ [][C30_Iteration]_vars
    /\ (lexResult.status = "call") ~> Returned
    /\ InLoop ~> Returned

\* tokenize has returned from a buffer of MaxLen chars with the cursor at its
\* end
C30_Witness ==
    /\ lexResult.status = "ok"
    /\ Len(lexer.input) = MaxLen
    /\ lexer.position = Len(lexer.input)

-----------------------------------------------------------------------------
(* C10 *)

\* the precedence level of a binary operator token, 1 the loosest
C10_Level(type) ==
    CASE type = "Or" -> 1
      [] type = "And" -> 2
      [] type \in {"Equal", "NotEqual"} -> 3
      [] type \in {"LessThan", "LessThanOrEqual", "GreaterThan", "GreaterThanOrEqual"} -> 4
      [] type \in {"Plus", "Minus"} -> 5
      [] type \in {"Multiply", "Divide"} -> 6

\* the BinaryOperator a binary operator token stands for
C10_Operator(type) ==
    CASE type = "Plus" -> "Add"
      [] type = "Minus" -> "Subtract"
      [] OTHER -> type

\* The grouping the precedence table prescribes for an expression without
\* parentheses: the root is the last binary operator of the loosest level
\* present (so equal levels group to the left and tighter ones below), and
\* an operand's prefix operators nest on it from the right.
RECURSIVE C10_Grouping(_)
C10_Grouping(toks) ==
    LET bin == BinaryPositions(toks) IN
    IF bin # {}
    THEN LET loosest == CHOOSE l \in 1..6 :
                            /\ \E i \in bin : C10_Level(toks[i].type) = l
                            /\ \A i \in bin : C10_Level(toks[i].type) >= l
             root == CHOOSE i \in bin :
                         /\ C10_Level(toks[i].type) = loosest
                         /\ \A j \in bin : C10_Level(toks[j].type) = loosest => j <= i
         IN BinaryExpression(C10_Grouping(SubSeq(toks, 1, root - 1)),
                             C10_Operator(toks[root].type),
                             C10_Grouping(SubSeq(toks, root + 1, Len(toks))))
    ELSE IF toks[1].type = "Identifier" THEN Identifier(toks[1].value)
    ELSE UnaryExpression(toks[1].type, C10_Grouping(Tail(toks)))

\* the token list is a whole expression closed with Eof
C10_WholeExpression(toks) ==
    /\ Len(toks) >= 2
    /\ toks[Len(toks)] = Eof
    /\ IsOperandAt(toks, Len(toks) - 1)

\* C10: Parser::parse groups a binary expression by precedence and
\* associativity: a op1 b op2 c is (a op1 b) op2 c when op1 is as tight as
\* op2 or tighter and a op1 (b op2 c) otherwise, over the levels ||, &&,
\* (== !=), (< <= > >=), (+ -), (* /); prefix ! and - bind tighter than
\* every binary operator and nest to the right.
C10_PrecedenceGrouping ==
    (presult.status = "done" /\ presult.parser = "Parser::parse"
        /\ C10_WholeExpression(ptokens)) =>
        /\ presult.ok
        /\ presult.node = Program(<< C10_Grouping(SubSeq(ptokens, 1, Len(ptokens) - 1)) >>)

C10_Witness ==
    /\ presult.status = "done"
    /\ presult.parser = "Parser::parse"
    /\ ptokens = << TokV("Identifier", "a"), Tok("Minus"), Tok("Not"),
                    TokV("Identifier", "b"), Tok("Multiply"), TokV("Identifier", "c"), Eof >>
    /\ presult.node =
           Program(<< BinaryExpression(
                          Identifier("a"), "Subtract",
                          BinaryExpression(
                              UnaryExpression("Not", Identifier("b")),
                              "Multiply", Identifier("c"))) >>)

-----------------------------------------------------------------------------
(* C5 *)

IsExtension(old, new) ==
    new = old \/ (Len(new) = Len(old) + 1 /\ SubSeq(new, 1, Len(old)) = old)

C5_ResultShape ==
    /\ lexResult.status = "ok" =>
          /\ lexResult.tokens # <<>>
          /\ lexResult.tokens[Len(lexResult.tokens)] = Eof
          /\ \A i \in 1..(Len(lexResult.tokens) - 1) : lexResult.tokens[i] # Eof
    /\ lexResult.status = "err" =>
          /\ lexResult.err.kind = "LexError"
          /\ lexResult.tokens = <<>>
    /\ lexResult.status \in {"call", "scan"} => lexResult.tokens = <<>>

\* C5: a successful tokenize returns a non-empty token list whose last token
\* is Eof and that holds Eof nowhere else, built in source order (each step
\* of the scan appends at most one token and never moves the cursor back,
\* and the list returned is the list built); a failed tokenize returns a
\* LexError and no token list.
C5_TokenizeResult ==
    /\ []C5_ResultShape
    /\ [][lexResult.status = "scan" =>
             /\ IsExtension(tokens, tokens')
             /\ lexer'.position >= lexer.position
             /\ (lexResult'.status = "ok" => lexResult'.tokens = tokens')]_vars

C5_Witness ==
    /\ lexResult.status = "ok"
    /\ Len(lexResult.tokens) >= 4
    /\ lexer.position = Len(source)

-----------------------------------------------------------------------------
(* C6 *)

\* C6: tokenize on the empty source returns LexError, and Parser::parse and
\* NewParser::parse_example_kururi on an empty token list return ParseError;
\* neither call ever succeeds on an empty input.
C6_EmptyInputsRejected ==
    /\ (source = <<>> /\ lexResult.status # "call") =>
          /\ lexResult.status = "err"
          /\ lexResult.err.kind = "LexError"
    /\ (presult.status = "done" /\ ptokens = <<>>) =>
          /\ ~presult.ok
          /\ presult.err.kind = "ParseError"

C6_Witness ==
    /\ source = <<>>
    /\ lexResult.status = "err"
    /\ lexResult.err = LexError("Empty source code")
    /\ presult.status = "done"
    /\ presult.parser = "Parser::parse"
    /\ ptokens = <<>>
    /\ presult.err = ParseError("No tokens to parse")

-----------------------------------------------------------------------------
(* C7 *)

\* the reserved words and the token variant each one names (Token::as_str)
ReservedVariants ==
    << <<"const", "Const">>, <<"let", "Let">>, <<"function", "Function">>,
       <<"class", "Class">>, <<"public", "Public">>, <<"if", "If">>,
       <<"elseif", "Elseif">>, <<"else", "Else">>, <<"while", "While">>,
       <<"for", "For">>, <<"foreach", "Foreach">>, <<"in", "In">>,
       <<"return", "Return">>, <<"new", "New">>, <<"true", "True">>,
       <<"false", "False">>, <<"string", "StringType">>,
       <<"number", "NumberType">>, <<"void", "VoidType">> >>

ReservedWords == {ReservedVariants[i][1] : i \in 1..Len(ReservedVariants)}

\* the source buffer is one run [A-Za-z_][A-Za-z0-9_]*
IsIdentifierRun(cs) ==
    /\ cs # <<>>
    /\ is_ascii_alphabetic(cs[1]) \/ cs[1] = "_"
    /\ \A i \in 1..Len(cs) : is_ascii_alphanumeric(cs[i]) \/ cs[i] = "_"

\* C7: each of the 19 reserved words lexes to its own token variant, no
\* Identifier token carries a reserved word, and every other run
\* [A-Za-z_][A-Za-z0-9_]* lexes to the Identifier carrying that run.
C7_KeywordCoverage ==
    /\ \A i \in 1..Len(tokens) :
          tokens[i].type = "Identifier" => tokens[i].value \notin ReservedWords
    /\ (lexResult.status = "ok" /\ IsIdentifierRun(source)) =>
          LET w == Join(source) IN
          lexResult.tokens =
              << IF w \in ReservedWords
                 THEN Tok(ReservedVariants[CHOOSE i \in 1..Len(ReservedVariants) :
                                               ReservedVariants[i][1] = w][2])
                 ELSE TokV("Identifier", w),
                 Eof >>

C7_Witness ==
    /\ lexResult.status = "ok"
    /\ source = <<"e", "l", "s", "e", "i", "f">>
    /\ lexResult.tokens = <<Tok("Elseif"), Eof>>

-----------------------------------------------------------------------------
(* C8 *)

\* the scan is about to read a number literal
AtNumber == lexResult.status = "scan" /\ Arm(lexer) = "number"

\* the chars between two cursor positions of the same input
Consumed(lx, pos2) == SubSeq(lx.input, lx.position + 1, pos2)

\* the end of the maximal run of digits and dots that starts at the cursor
NumberRunEnd(lx) ==
    CHOOSE e \in lx.position..Len(lx.input) :
        /\ \A i \in (lx.position + 1)..e :
              is_ascii_digit(lx.input[i]) \/ lx.input[i] = "."
        /\ e = Len(lx.input)
           \/ ~(is_ascii_digit(lx.input[e + 1]) \/ lx.input[e + 1] = ".")

\* C8 as claimed: the chars consumed for one number literal never include a
\* second '.'.
C8_AtMostOneDotConsumed ==
    [][AtNumber => DotCount(Consumed(lexer, lexer'.position)) <= 1]_vars

\* C8 as amended: read_number consumes the maximal run of digits and dots;
\* a run with at most one '.' yields one NumberLiteral token, a run with a
\* second '.' is consumed whole and makes tokenize return the LexError
\* "Invalid number format" (the second '.' is not lexed on its own).
C8_NumberRun ==
    [][AtNumber =>
         LET run == Consumed(lexer, NumberRunEnd(lexer)) IN
         /\ lexer'.position = NumberRunEnd(lexer)
         /\ IF DotCount(run) <= 1
            THEN /\ lexResult'.status = "scan"
                 /\ Len(tokens') = Len(tokens) + 1
                 /\ tokens'[Len(tokens')].type = "NumberLiteral"
                 /\ tokens'[Len(tokens')].value = ParseF64(run).value
            ELSE /\ lexResult'.status = "err"
                 /\ lexResult'.err = LexError("Invalid number format: " \o Join(run))
                 /\ lexResult'.tokens = <<>>]_vars

C8_Witness ==
    /\ source = <<"1", ".", "1", ".">>
    /\ lexResult.status = "err"
    /\ lexResult.err = LexError("Invalid number format: 1.1.")
    /\ lexer.position = 4

-----------------------------------------------------------------------------
(* C9 *)

AtString == lexResult.status = "scan" /\ Arm(lexer) = "string"

\* in the text `r` after an opening quote: the backslash at i opens an escape
\* (it is not itself the char escaped by the backslash before it)
RECURSIVE OpensEscape(_, _)
OpensEscape(r, i) ==
    /\ i >= 1
    /\ i <= Len(r)
    /\ r[i] = "\\"
    /\ ~OpensEscape(r, i - 1)

\* the quotes of `r` that no backslash escapes
ClosingQuotes(r) == {i \in 1..Len(r) : r[i] = "\"" /\ ~OpensEscape(r, i - 1)}

Least(S) == CHOOSE i \in S : \A j \in S : i <= j

EscapeChars == {"n", "t", "r", "\\", "\""}

Unescape(c) ==
    CASE c = "n" -> "\n"
      [] c = "t" -> "\t"
      [] c = "r" -> "\r"
      [] OTHER -> c

\* the text r[i..k-1] with its escapes decoded
RECURSIVE Decoded(_, _, _)
Decoded(r, i, k) ==
    IF i >= k THEN ""
    ELSE IF OpensEscape(r, i)
         THEN Unescape(r[i + 1]) \o Decoded(r, i + 2, k)
         ELSE r[i] \o Decoded(r, i + 1, k)

\* C9: the StringLiteral payload is the text between the quotes with the
\* five escapes \n \t \r \\ \" decoded and every other char copied; a
\* backslash before any other char, or the end of the input before the
\* closing quote (also right after a backslash), makes tokenize return a
\* LexError.
C9_StringLiteral ==
    [][AtString =>
         LET r == SubSeq(lexer.input, lexer.position + 2, Len(lexer.input))
             closing == ClosingQuotes(r)
             k == IF closing = {} THEN Len(r) + 1 ELSE Least(closing)
             badEscape == \E i \in 1..(k - 1) :
                              OpensEscape(r, i) /\ (i = Len(r) \/ r[i + 1] \notin EscapeChars)
         IN IF closing # {} /\ ~badEscape
            THEN /\ lexResult'.status = "scan"
                 /\ tokens' = Append(tokens, TokV("StringLiteral", Decoded(r, 1, k)))
                 /\ lexer'.position = lexer.position + 1 + k
            ELSE /\ lexResult'.status = "err"
                 /\ lexResult'.err.kind = "LexError"
                 /\ lexResult'.tokens = <<>>]_vars

C9_Witness ==
    /\ source = <<"\"", "\\", "n", "\"">>
    /\ lexResult.status = "ok"
    /\ lexResult.tokens = <<TokV("StringLiteral", "\n"), Eof>>

====
